---- MODULE Spec2Model ----
(***************************************************************************)
(* Model of the cause-list acquisition pipeline of the repository:         *)
(*   causelist/captcha.py  solve_and_verify, verify_captcha, fetch_captcha *)
(*   causelist/client.py   CauseListClient.search_causelist                *)
(* Python strings are sequences of one-character strings, so that strip,   *)
(* lstrip, startswith, len and the substring test are computed.            *)
(***************************************************************************)
EXTENDS Integers, Sequences, FiniteSets, TLC

VARIABLES
    pc,            \* position of search_causelist / solve_and_verify
    attempt,       \* loop variable of solve_and_verify (0 before the loop)
    audio_result,  \* result of solve_audio_captcha for the current attempt
    image_result,  \* result of solve_image_captcha for the current attempt
    candidates,    \* candidates of the current attempt not yet tried
    solve_ret,     \* what solve_and_verify returned: "none", "True", "False", "raised"
    post_status,   \* HTTP status of the search POST response (0: no response)
    response_text, \* resp.text.strip() of the search POST
    raw_body,      \* resp.text of the search POST, as the server sent it
    file_url,      \* the resolved document location
    retval,        \* what search_causelist returned
    error,         \* the exception search_causelist raised ("" if none)
    inits,         \* history: number of main-page GETs
    fetches,       \* history: number of challenge fetches
    verifies,      \* history: number of verify POSTs
    sleeps,        \* history: number of time.sleep(CAPTCHA_RETRY_DELAY) calls
    posts,         \* history: number of search POSTs
    docs,          \* history: number of document GETs
    doc_url,       \* history: the URL of the document GET
    submitted,     \* history: verify calls made since the last challenge fetch
    slept,         \* history: sleep durations since the last challenge fetch
    gap,           \* history: sleep durations between the last two fetches
    accepts,       \* history: number of verify calls the server accepted
    outcome        \* history: how the last request of each kind ended

\* the state of the call of verify_captcha that is examined on its own
VARIABLES
    resp_text,     \* resp.text of the verify POST
    verify_ret     \* what verify_captcha returned ("unset" before it returns)

\* the state of the candidate selection of one recogniser
VARIABLES
    all_candidates, \* the candidates in the order the recogniser produced them
    permuted,       \* the same candidates in another order
    modality,       \* the recogniser that ran: "audio", "image" ("" before)
    best,           \* what it returned for all_candidates
    best_permuted,  \* what it returned for permuted
    best_unavailable \* what it returns when its backend cannot be imported

\* the state of the bot's entry points, each running searches of its own
VARIABLES
    run_pc,           \* per entry point: position of its current search ("idle": none)
    run_session,      \* per entry point: client.session of its current client (0: none)
    run_challenge,    \* per entry point: the session its current challenge was fetched on
    run_attempt,      \* per entry point: loop variable of solve_and_verify
    run_searches,     \* per entry point: searches it has finished
    run_verified,     \* history, per entry point: <<session of the challenge, session
                      \* of the verify POST>> of its last verify (<<0, 0>>: none)
    sessions_created, \* history: number of requests.Session() objects constructed
    backed            \* history: per session, the number of searches it has backed

\* the state of parse_to_records
VARIABLES
    rows_done,        \* history: number of rows the loop has taken
    row,              \* the row the loop took last (<< >> before the first)
    prev_kind,        \* history: the branch the row before it took ("" if none)
    rows_left,        \* the rows of the table at hand that come next, as far as
                      \* the rows taken so far determine them
    tables_left,      \* the tables nested in the table at hand that the loop
                      \* over tables has yet to take, each the sequence of its rows
    in_nested,        \* the table at hand is nested in a table taken before
    records,          \* the CaseEntry records appended so far
    current_court,
    current_judge,
    current_category

\* the state of group_by_court
VARIABLES
    grouped,          \* the entries of the records argument the loop has taken
    sections          \* the OrderedDict sections, in insertion order

\* the state of next_working_day
VARIABLES
    nwd_pc,           \* position of the call: "idle", "loop", "returned", "raised"
    from_date,        \* the argument, as date.toordinal() numbers it
    d,                \* the local d, as date.toordinal() numbers it
    increments        \* history: passes of the while loop of the call

\* the state of format_causelist_message; a text is held as its length and the
\* cases it renders, in their order
VARIABLES
    fmt_pc,           \* position of the call: "idle", "loop", "done"
    fmt_records,      \* the records argument
    fmt_type,         \* the cl_type argument
    fmt_sections,     \* the sections the loop has yet to take
    current,          \* the message being built
    messages          \* the messages built so far; at "done", the list returned

\* the scheduled job and the tables it shares with the handlers:
\* the users table, the notification_log table, each job's run of
\* scheduled_fetch_and_notify, the fetch_log rows of the run and the sends that
\* raised in it, and the users that messages of a type and date have reached
VARIABLES users, notification_log, run, fetch_log, send_failed, received

\* the state of one search_causelist call
searchVars == <<pc, attempt, audio_result, image_result, candidates, solve_ret,
                post_status, response_text, raw_body, file_url, retval, error,
                inits, fetches, verifies, sleeps, posts, docs, doc_url,
                submitted, slept, gap, accepts, outcome>>

verifyVars == <<resp_text, verify_ret>>

selectVars == <<all_candidates, permuted, modality, best, best_permuted,
               best_unavailable>>

botVars == <<run_pc, run_session, run_challenge, run_attempt, run_searches,
             run_verified, sessions_created, backed>>

parseVars == <<rows_done, row, prev_kind, rows_left, tables_left, in_nested, records, current_court, current_judge,
               current_category>>

groupVars == <<grouped, sections>>

dateVars == <<nwd_pc, from_date, d, increments>>

formatVars == <<fmt_pc, fmt_records, fmt_type, fmt_sections, current, messages>>

schedVars == <<users, notification_log, run, fetch_log, send_failed, received>>

\* what a search_causelist call leaves alone
otherVars == <<verifyVars, selectVars, botVars, parseVars, groupVars, dateVars, formatVars, schedVars>>

\* what a call of verify_captcha examined on its own leaves alone
verifyOthers == <<searchVars, selectVars, botVars, parseVars, groupVars, dateVars, formatVars, schedVars>>

\* what the candidate selection of a recogniser leaves alone
selectOthers == <<searchVars, verifyVars, botVars, parseVars, groupVars, dateVars, formatVars, schedVars>>

\* what the bot's entry points leave alone
botOthers == <<searchVars, verifyVars, selectVars, parseVars, groupVars, dateVars, formatVars, schedVars>>

\* what parse_to_records leaves alone
parseOthers == <<searchVars, verifyVars, selectVars, botVars, groupVars, dateVars, formatVars, schedVars>>

\* what group_by_court leaves alone
groupOthers == <<searchVars, verifyVars, selectVars, botVars, parseVars, dateVars, formatVars, schedVars>>

\* what next_working_day leaves alone
dateOthers == <<searchVars, verifyVars, selectVars, botVars, parseVars, groupVars, formatVars, schedVars>>

\* what format_causelist_message leaves alone
formatOthers == <<searchVars, verifyVars, selectVars, botVars, parseVars, groupVars, dateVars, schedVars>>

\* what the scheduled job and the handlers leave alone
schedOthers == <<searchVars, verifyVars, selectVars, botVars, parseVars, groupVars, dateVars, formatVars>>

vars == <<searchVars, otherVars>>

---------------------------------------------------------------------------
(* Configuration constants, causelist/config.py *)

BASE_URL == <<"h", "t", "t", "p", "s", ":", "/", "/", "h", "c", "r", "a", "j", ".", "n", "i", "c", ".", "i", "n">>

MAX_CAPTCHA_RETRIES == 10

\* CAPTCHA_RETRY_DELAY = 0.5 seconds, in milliseconds
CAPTCHA_RETRY_DELAY == 500

---------------------------------------------------------------------------
(* Python string primitives *)

\* str.isspace() for the characters of the model's alphabet
IsSpace(c) == c \in {" ", "\n", "\t", "\r"}

RECURSIVE LStripSpace(_)
LStripSpace(s) ==
    IF s # <<>> /\ IsSpace(Head(s)) THEN LStripSpace(Tail(s)) ELSE s

RECURSIVE RStripSpace(_)
RStripSpace(s) ==
    IF s # <<>> /\ IsSpace(s[Len(s)])
    THEN RStripSpace(SubSeq(s, 1, Len(s) - 1))
    ELSE s

\* str.strip()
Strip(s) == RStripSpace(LStripSpace(s))

\* str.lstrip(chars) for a one-character chars argument
RECURSIVE LStripChar(_, _)
LStripChar(s, c) ==
    IF s # <<>> /\ Head(s) = c THEN LStripChar(Tail(s), c) ELSE s

\* str.startswith(prefix)
StartsWith(s, prefix) ==
    /\ Len(s) >= Len(prefix)
    /\ SubSeq(s, 1, Len(prefix)) = prefix

\* the substring test  `sub in s`
Contains(s, sub) ==
    \E i \in 0..(Len(s) - Len(sub)) : SubSeq(s, i + 1, i + Len(sub)) = sub

---------------------------------------------------------------------------
(* Values of type  str | None  *)

None == [some |-> FALSE, val |-> <<>>]
Some(s) == [some |-> TRUE, val |-> s]

\* Python truthiness of a  str | None
Truthy(r) == r.some /\ Len(r.val) > 0

---------------------------------------------------------------------------
(* Inputs the environment (portal, recognisers) can produce *)

Code6A == <<"1", "2", "3", "4", "5", "6">>
Code6B == <<"6", "5", "4", "3", "2", "1">>
Code5  == <<"1", "2", "3", "4", "5">>
Code7  == <<"1", "2", "3", "4", "5", "6", "7">>

\* what solve_audio_captcha / solve_image_captcha can return: None (backend
\* missing, nothing recognised, or an exception) or a non-empty digit string
RecognitionResults == {None, Some(Code5), Some(Code6A), Some(Code6B), Some(Code7)}

\* literals of the verify response
SecCodeError == <<"S", "e", "c", "C", "o", "d", "e", "E", "r", "r", "o", "r">>
Invalid == <<"I", "n", "v", "a", "l", "i", "d">>

\* response bodies of the verify endpoint
VerifyBodies ==
    { <<>>,
      <<"O", "K">>,
      SecCodeError,
      <<"I", "n", "v", "a", "l", "i", "d", " ", "C", "a", "p", "t", "c", "h", "a">> }

\* literals of the search response
NoRecordFound == <<"N", "o", " ", "R", "e", "c", "o", "r", "d", " ", "F", "o", "u", "n", "d">>
NA == <<"N", "A">>
HttpPrefix == <<"h", "t", "t", "p">>
PortalPrefix == <<"/", "c", "i", "s", "h", "c", "r", "a", "j", "-", "j", "p", "/">>

BodyRelative == <<"/", "c", "a", "u", "s", "e", "l", "i", "s", "t", "/", "o", "u", "t", "p", "u", "t", "/", "1", "2", "3", ".", "h", "t", "m", "l">>
BodyTwoSlashes == <<"/", "/", "a", "/", "1", ".", "h", "t", "m", "l">>
BodyNoSlash == <<"a", "/", "1", ".", "h", "t", "m", "l">>
BodyAbsolute == <<"h", "t", "t", "p", ":", "/", "/", "h", "/", "1", ".", "h", "t", "m", "l">>
BodyFtp == <<"f", "t", "p", ":", "/", "/", "h", "/", "1">>
BodyHttpdocs == <<"h", "t", "t", "p", "d", "o", "c", "s", "/", "1">>
BodyPaddedNA == <<"N", "A", "\n">>
BodyBlank == <<" ">>
BodyPaddedPath == <<" ", "/", "a", "/", "1">>
BodyPaddedUrl == <<"h", "t", "t", "p", ":", "/", "/", "h", "/", "1", "\n">>

\* response bodies of the search endpoint
SearchBodies ==
    { <<>>, NA, NoRecordFound, BodyPaddedNA, BodyBlank,
      BodyRelative, BodyTwoSlashes, BodyNoSlash, BodyAbsolute,
      BodyFtp, BodyHttpdocs, BodyPaddedPath, BodyPaddedUrl }

\* HTTP statuses of a response that arrived
HttpStatuses == {200, 500}

\* texts of the result document
DocBodies == { <<>>, <<"<", "t", "r", ">">> }

\* how a request can end: a response with a success status, a response with
\* a failure status, or no response (timeout, connection error)
Outcomes == {"ok", "http_error", "timeout"}

---------------------------------------------------------------------------
(* causelist/captcha.py *)

\* variant: range(1, MAX_CAPTCHA_RETRIES + 2), one pass too many
LastAttemptOffByOne == MAX_CAPTCHA_RETRIES + 1

\* range(1, MAX_CAPTCHA_RETRIES + 1): the last value the loop variable takes
LastAttempt == MAX_CAPTCHA_RETRIES

\* one entry of the candidates list: (solver, solution)
Cand(solver, solution) == [solver |-> solver, solution |-> solution]

\* variant: the agreement of the two recognisers is not detected
BuildCandidatesNoAgreement(audio, image) ==
    (IF Truthy(audio) /\ Len(audio.val) = 6
     THEN << Cand("audio", audio.val) >> ELSE << >>)
    \o
    (IF Truthy(image) /\ Len(image.val) = 6
     THEN << Cand("image", image.val) >> ELSE << >>)

\* variant: the length test is dropped, fallback results are submitted too
BuildCandidatesWithFallback(audio, image) ==
    IF Truthy(audio) /\ Truthy(image) /\ audio.val = image.val
    THEN << Cand("audio+image", audio.val) >>
    ELSE (IF Truthy(audio) THEN << Cand("audio", audio.val) >> ELSE << >>)
         \o
         (IF Truthy(image) THEN << Cand("image", image.val) >> ELSE << >>)

\* variant: the image result is appended before the audio result
BuildCandidatesImageFirst(audio, image) ==
    IF /\ Truthy(audio) /\ Truthy(image)
       /\ Len(audio.val) = 6 /\ Len(image.val) = 6
       /\ audio.val = image.val
    THEN << Cand("audio+image", audio.val) >>
    ELSE (IF Truthy(image) /\ Len(image.val) = 6
          THEN << Cand("image", image.val) >> ELSE << >>)
         \o
         (IF Truthy(audio) /\ Len(audio.val) = 6
          THEN << Cand("audio", audio.val) >> ELSE << >>)

\* solve_and_verify, "Collect 6-digit candidates in priority order"
BuildCandidates(audio, image) ==
    IF /\ Truthy(audio) /\ Truthy(image)
       /\ Len(audio.val) = 6 /\ Len(image.val) = 6
       /\ audio.val = image.val
    THEN << Cand("audio+image", audio.val) >>
    ELSE (IF Truthy(audio) /\ Len(audio.val) = 6
          THEN << Cand("audio", audio.val) >> ELSE << >>)
         \o
         (IF Truthy(image) /\ Len(image.val) = 6
          THEN << Cand("image", image.val) >> ELSE << >>)

\* variant: only the first rejection marker is looked for
verify_captchaOnlySecCodeError(text) == ~Contains(text, SecCodeError)

\* verify_captcha: the value returned for the response text
verify_captcha(text) ==
    ~Contains(text, SecCodeError) /\ ~Contains(text, Invalid)

\* variant: every failure is re-raised as the error of captcha exhaustion
RaisedByRuntimeError(how) == "RuntimeError"

\* the exception a request that got no usable response raises
RaisedBy(how) ==
    CASE how = "http_error" -> "HTTPError"
      [] how = "bad_json" -> "JSONDecodeError"
      [] how = "invalid_url" -> "MissingSchema"
      [] OTHER -> "Timeout"

---------------------------------------------------------------------------
(* causelist/client.py *)

\* variant: the "NA" sentinel is forgotten
IsNoResultWithoutNA(text) == text = <<>> \/ text = NoRecordFound

\* search_causelist, "Step 5: Handle response": the no-result test
IsNoResult(text) == text = <<>> \/ text \in {NoRecordFound, NA}

\* variant: the leading slashes of a relative path are kept
ResolveUrlNoLstrip(text) ==
    IF StartsWith(text, HttpPrefix)
    THEN text
    ELSE BASE_URL \o PortalPrefix \o text

\* search_causelist: the document location for a response text
ResolveUrl(text) ==
    IF StartsWith(text, HttpPrefix)
    THEN text
    ELSE BASE_URL \o PortalPrefix \o LStripChar(text, "/")

\* cli.py main, `except RuntimeError`: the error is caught as a RuntimeError
\* (the requests exceptions and the JSON decode error derive from OSError and
\* ValueError, not from RuntimeError)
IsRuntimeError(e) == e = "RuntimeError"

\* the values search_causelist returns
RetUnset == [kind |-> "unset", text |-> <<>>]
RetNone == [kind |-> "None", text |-> <<>>]
RetText(t) == [kind |-> "str", text |-> t]

\* a location requests can send a GET to; any other raises before sending
Fetchable(url) ==
    \/ StartsWith(url, <<"h", "t", "t", "p", ":", "/", "/">>)
    \/ StartsWith(url, <<"h", "t", "t", "p", "s", ":", "/", "/">>)

---------------------------------------------------------------------------
(* The state machine of one search_causelist call *)

\* no request was made yet
NoOutcome == [init |-> "", fetch |-> "", verify |-> "", post |-> "", doc |-> ""]

\* no call of verify_captcha is examined on its own
VerifyIdle == resp_text = << >> /\ verify_ret = "unset"

\* no recogniser is examined on its own
SelectIdle ==
    /\ all_candidates = << >>
    /\ permuted = << >>
    /\ modality = ""
    /\ best = None
    /\ best_permuted = None
    /\ best_unavailable = None

\* the entry points of the bot that search: the scheduled job and /fetch
Callers == {"job", "fetch"}

\* no entry point of the bot has started
BotIdle ==
    /\ run_pc = [p \in Callers |-> "idle"]
    /\ run_session = [p \in Callers |-> 0]
    /\ run_challenge = [p \in Callers |-> 0]
    /\ run_attempt = [p \in Callers |-> 0]
    /\ run_searches = [p \in Callers |-> 0]
    /\ run_verified = [p \in Callers |-> <<0, 0>>]
    /\ sessions_created = 0
    /\ backed = << >>

\* no document is being parsed
ParseIdle ==
    /\ rows_done = 0
    /\ row = << >>
    /\ prev_kind = ""
    /\ rows_left = << >>
    /\ tables_left = << >>
    /\ in_nested = FALSE
    /\ records = << >>
    /\ current_court = << >>
    /\ current_judge = << >>
    /\ current_category = << >>

\* group_by_court is not running
GroupIdle == grouped = << >> /\ sections = << >>

\* next_working_day has not been called
DateIdle ==
    /\ nwd_pc = "idle"
    /\ from_date = 0
    /\ d = 0
    /\ increments = 0

\* the empty text
NoText == [len |-> 0, cases |-> << >>]

\* format_causelist_message has not been called
FormatIdle ==
    /\ fmt_pc = "idle"
    /\ fmt_records = << >>
    /\ fmt_type = ""
    /\ fmt_sections = << >>
    /\ current = NoText
    /\ messages = << >>

\* the two jobs that bot_main registers with run_daily
Jobs == {"morning_fetch", "evening_fetch"}

\* the ids of the rows the users table can hold
UserIds == {1, 2}

\* no row of the users table
NoUser == [is_active |-> FALSE, lawyer_name |-> ""]

\* a job that is not running
NoRun ==
    [ pc |-> "idle", target_date |-> << >>, users |-> << >>, users_by_name |-> << >>,
      cl_type |-> 1, group |-> 1, user |-> 1, msg |-> 1, messages |-> 0 ]

\* empty tables, and no job running
SchedIdle ==
    /\ users = [u \in UserIds |-> NoUser]
    /\ notification_log = {}
    /\ run = [j \in Jobs |-> NoRun]
    /\ fetch_log = [j \in Jobs |-> {}]
    /\ send_failed = [j \in Jobs |-> {}]
    /\ received = {}

\* the state before search_causelist is called
SearchInit ==
    /\ pc = "start"
    /\ attempt = 0
    /\ audio_result = None
    /\ image_result = None
    /\ candidates = << >>
    /\ solve_ret = "none"
    /\ post_status = 0
    /\ response_text = << >>
    /\ raw_body = << >>
    /\ file_url = << >>
    /\ retval = RetUnset
    /\ error = ""
    /\ inits = 0
    /\ fetches = 0
    /\ verifies = 0
    /\ sleeps = 0
    /\ posts = 0
    /\ docs = 0
    /\ doc_url = << >>
    /\ submitted = << >>
    /\ slept = << >>
    /\ gap = << >>
    /\ accepts = 0
    /\ outcome = NoOutcome

Init == SearchInit /\ VerifyIdle /\ SelectIdle /\ BotIdle /\ ParseIdle /\ GroupIdle /\ DateIdle /\ FormatIdle /\ SchedIdle

solveLocals == <<attempt, audio_result, image_result, candidates>>
searchLocals == <<post_status, response_text, raw_body, file_url>>
captchaHistory == <<fetches, verifies, sleeps, submitted, slept, gap, accepts>>
searchHistory == <<posts, docs, doc_url>>

\* variant: initialize_session without raise_for_status
InitializeSessionNoRaise ==
    /\ pc = "start"
    /\ inits' = inits + 1
    /\ \E o \in Outcomes :
         /\ outcome' = [outcome EXCEPT !.init = o]
         /\ IF o \in {"ok", "http_error"}
            THEN pc' = "loop" /\ error' = error
            ELSE pc' = "raised" /\ error' = RaisedBy(o)
    /\ UNCHANGED <<solveLocals, solve_ret, searchLocals, retval,
                   captchaHistory, searchHistory>>
    /\ UNCHANGED otherVars

\* search_causelist step 1: initialize_session()
InitializeSession ==
    /\ pc = "start"
    /\ inits' = inits + 1
    /\ \E o \in Outcomes :
         /\ outcome' = [outcome EXCEPT !.init = o]
         /\ IF o = "ok"
            THEN pc' = "loop" /\ error' = error
            ELSE pc' = "raised" /\ error' = RaisedBy(o)
    /\ UNCHANGED <<solveLocals, solve_ret, searchLocals, retval,
                   captchaHistory, searchHistory>>
    /\ UNCHANGED otherVars

\* solve_and_verify: one pass from the loop head: fetch_captcha (which raises
\* on a failure status, on no response and on a body resp.json() rejects), both
\* recognisers, the candidate list, and the `continue` when it is empty
FetchCaptcha ==
    /\ pc = "loop"
    /\ attempt < LastAttempt
    /\ attempt' = attempt + 1
    /\ fetches' = fetches + 1
    /\ gap' = slept
    /\ slept' = << >>
    /\ submitted' = << >>
    /\ \E o \in Outcomes \cup {"bad_json"} :
         /\ outcome' = [outcome EXCEPT !.fetch = o]
         /\ IF o = "ok"
            THEN \E a \in RecognitionResults, i \in RecognitionResults :
                   /\ audio_result' = a
                   /\ image_result' = i
                   /\ candidates' = BuildCandidates(a, i)
                   /\ pc' = IF BuildCandidates(a, i) = << >> THEN "loop" ELSE "verify"
                   /\ UNCHANGED <<solve_ret, error>>
            ELSE /\ pc' = "raised"
                 /\ solve_ret' = "raised"
                 /\ error' = RaisedBy(o)
                 /\ UNCHANGED <<audio_result, image_result, candidates>>
    /\ UNCHANGED <<searchLocals, retval, inits, verifies, sleeps, accepts, searchHistory>>
    /\ UNCHANGED otherVars

\* variant: an accepted verification does not end the loop over candidates
VerifyCaptchaNoEarlyReturn ==
    /\ pc = "verify"
    /\ candidates # << >>
    /\ verifies' = verifies + 1
    /\ \E text \in VerifyBodies :
         /\ submitted' = Append(submitted,
                                [code |-> Head(candidates).solution,
                                 ok |-> verify_captcha(text)])
         /\ accepts' = IF verify_captcha(text) THEN accepts + 1 ELSE accepts
    /\ candidates' = Tail(candidates)
    /\ pc' = IF Tail(candidates) = << >> THEN "sleep" ELSE "verify"
    /\ outcome' = [outcome EXCEPT !.verify = "response"]
    /\ UNCHANGED <<attempt, audio_result, image_result, solve_ret, error,
                   searchLocals, retval, inits, fetches, sleeps, slept, gap,
                   searchHistory>>
    /\ UNCHANGED otherVars

\* solve_and_verify: one pass of "for solver, solution in candidates"
VerifyCaptcha ==
    /\ pc = "verify"
    /\ candidates # << >>
    /\ verifies' = verifies + 1
    /\ \E o \in {"response", "http_error", "timeout"} :
         (outcome' = [outcome EXCEPT !.verify = o]) /\
         IF o # "timeout"
         THEN \E text \in VerifyBodies :
                /\ submitted' = Append(submitted,
                                       [code |-> Head(candidates).solution,
                                        ok |-> verify_captcha(text)])
                /\ candidates' = Tail(candidates)
                /\ IF verify_captcha(text)
                   THEN /\ pc' = "post"
                        /\ solve_ret' = "True"
                        /\ accepts' = accepts + 1
                   ELSE /\ pc' = IF Tail(candidates) = << >> THEN "sleep" ELSE "verify"
                        /\ solve_ret' = solve_ret
                        /\ accepts' = accepts
                /\ error' = error
         ELSE /\ submitted' = Append(submitted,
                                     [code |-> Head(candidates).solution,
                                      ok |-> FALSE])
              /\ pc' = "raised"
              /\ solve_ret' = "raised"
              /\ error' = RaisedBy(o)
              /\ candidates' = candidates
              /\ accepts' = accepts
    /\ UNCHANGED <<attempt, audio_result, image_result, searchLocals, retval,
                   inits, fetches, sleeps, slept, gap, searchHistory>>
    /\ UNCHANGED otherVars

\* solve_and_verify: time.sleep(CAPTCHA_RETRY_DELAY) after the candidates
Sleep ==
    /\ pc = "sleep"
    /\ sleeps' = sleeps + 1
    /\ slept' = Append(slept, CAPTCHA_RETRY_DELAY)
    /\ pc' = "loop"
    /\ UNCHANGED <<solveLocals, solve_ret, searchLocals, retval, error, inits,
                   fetches, verifies, submitted, gap, accepts, outcome, searchHistory>>
    /\ UNCHANGED otherVars

\* variant: search_causelist does not test what solve_and_verify returned
ReturnFalseIgnored ==
    /\ pc = "loop"
    /\ attempt >= LastAttempt
    /\ solve_ret' = "False"
    /\ pc' = "post"
    /\ UNCHANGED <<solveLocals, searchLocals, retval, error, inits,
                   captchaHistory, outcome, searchHistory>>
    /\ UNCHANGED otherVars

\* solve_and_verify: the loop is over, return False; search_causelist raises
ReturnFalse ==
    /\ pc = "loop"
    /\ attempt >= LastAttempt
    /\ solve_ret' = "False"
    /\ pc' = "raised"
    /\ error' = "RuntimeError"
    /\ UNCHANGED <<solveLocals, searchLocals, retval, inits,
                   captchaHistory, outcome, searchHistory>>
    /\ UNCHANGED otherVars

\* search_causelist steps 3 to 5: the search POST and the reading of its body
PostSearch ==
    /\ pc = "post"
    /\ posts' = posts + 1
    /\ \E o \in {"response", "timeout"} :
         (outcome' = [outcome EXCEPT !.post = o]) /\
         IF o = "response"
         THEN \E st \in HttpStatuses, body \in SearchBodies :
                /\ post_status' = st
                /\ raw_body' = body
                /\ response_text' = Strip(body)
                /\ IF IsNoResult(Strip(body))
                   THEN /\ retval' = RetNone
                        /\ pc' = "returned"
                        /\ file_url' = file_url
                   ELSE /\ file_url' = ResolveUrl(Strip(body))
                        /\ pc' = "get_doc"
                        /\ retval' = retval
                /\ error' = error
         ELSE /\ pc' = "raised"
              /\ error' = RaisedBy(o)
              /\ UNCHANGED <<searchLocals, retval>>
    /\ UNCHANGED <<solveLocals, solve_ret, inits, captchaHistory, docs, doc_url>>
    /\ UNCHANGED otherVars

\* variant: the document GET without raise_for_status
GetDocumentNoRaiseForStatus ==
    /\ pc = "get_doc"
    /\ docs' = docs + 1
    /\ doc_url' = file_url
    /\ \E o \in (IF Fetchable(file_url) THEN Outcomes ELSE {"invalid_url"}) :
         /\ outcome' = [outcome EXCEPT !.doc = o]
         /\ IF o \in {"ok", "http_error"}
            THEN \E t \in DocBodies :
                   /\ retval' = RetText(t)
                   /\ pc' = "returned"
                   /\ error' = error
            ELSE /\ pc' = "raised"
                 /\ error' = RaisedBy(o)
                 /\ retval' = retval
    /\ UNCHANGED <<solveLocals, solve_ret, searchLocals, inits, captchaHistory, posts>>
    /\ UNCHANGED otherVars

\* search_causelist: the GET of the resolved document and raise_for_status
GetDocument ==
    /\ pc = "get_doc"
    /\ docs' = docs + 1
    /\ doc_url' = file_url
    /\ \E o \in (IF Fetchable(file_url) THEN Outcomes ELSE {"invalid_url"}) :
         /\ outcome' = [outcome EXCEPT !.doc = o]
         /\ IF o = "ok"
            THEN \E t \in DocBodies :
                   /\ retval' = RetText(t)
                   /\ pc' = "returned"
                   /\ error' = error
            ELSE /\ pc' = "raised"
                 /\ error' = RaisedBy(o)
                 /\ retval' = retval
    /\ UNCHANGED <<solveLocals, solve_ret, searchLocals, inits, captchaHistory, posts>>
    /\ UNCHANGED otherVars

Next ==
    \/ InitializeSession
    \/ FetchCaptcha
    \/ VerifyCaptcha
    \/ Sleep
    \/ ReturnFalse
    \/ PostSearch
    \/ GetDocument

Spec == Init /\ [][Next]_vars

---------------------------------------------------------------------------
(* Properties of solve_and_verify *)

\* a recogniser result that is a 6-character string
Six(r) == r.some /\ Len(r.val) = 6

\* the codes of the verify calls made since the last challenge fetch
SubmittedCodes == [k \in 1..Len(submitted) |-> submitted[k].code]

\* C1: a call of solve_and_verify never issues more than MAX_CAPTCHA_RETRIES
\* challenge fetches, and when it returns False it has issued exactly
\* MAX_CAPTCHA_RETRIES of them.
C1_ExhaustionUsesWholeBudget ==
    /\ fetches <= MAX_CAPTCHA_RETRIES
    /\ (solve_ret = "False" => fetches = MAX_CAPTCHA_RETRIES)

C1_Witness ==
    /\ solve_ret = "False"
    /\ fetches = MAX_CAPTCHA_RETRIES
    /\ verifies > 0

\* C2: in an attempt whose audio and image results are both 6 characters long
\* and equal, the first verify call submits that value, no second verify call
\* is made in the attempt, and the attempt does not end without that call.
C2_AgreedValueSubmittedOnce ==
    (Six(audio_result) /\ Six(image_result) /\ audio_result.val = image_result.val)
    => /\ Len(submitted) <= 1
       /\ (Len(submitted) >= 1 => submitted[1].code = audio_result.val)
       /\ (pc \in {"sleep", "loop"} => SubmittedCodes = << audio_result.val >>)

C2_Witness ==
    /\ Six(audio_result) /\ Six(image_result)
    /\ audio_result.val = image_result.val
    /\ pc = "loop"
    /\ SubmittedCodes = << audio_result.val >>
    /\ ~submitted[1].ok

\* C3 as claimed: between two consecutive challenge fetches at most one verify
\* call is issued.
C3_AtMostOneVerifyPerChallenge == Len(submitted) <= 1

\* C3 as amended: between two consecutive challenge fetches at most two verify
\* calls are issued; a second one is issued only after the first was rejected,
\* and then the first submits the audio value and the second the different
\* image value, both for the same challenge.
C3_AtMostTwoVerifiesPerChallenge ==
    /\ Len(submitted) <= 2
    /\ Len(submitted) = 2 =>
         /\ ~submitted[1].ok
         /\ submitted[1].code # submitted[2].code
         /\ submitted[1].code = audio_result.val
         /\ submitted[2].code = image_result.val

C3_Witness ==
    /\ Len(submitted) = 2
    /\ submitted[1].code = Code6A
    /\ submitted[2].code = Code6B
    /\ fetches = 1

\* C4: every code passed to verify_captcha has length 6; an attempt in which
\* neither recogniser produced a 6-character result issues no verify call (it
\* goes back to the loop head or fails in the fetch) and has still advanced
\* the attempt counter by one, as every challenge fetch does.
C4_OnlySixCharacterCodes ==
    /\ \A k \in 1..Len(submitted) : Len(submitted[k].code) = 6
    /\ attempt = fetches
    /\ (~Six(audio_result) /\ ~Six(image_result))
       => (submitted = << >> /\ pc \notin {"verify", "sleep", "post"})

C4_Witness ==
    /\ audio_result = Some(Code5)
    /\ image_result = Some(Code7)
    /\ attempt = 2
    /\ fetches = 2
    /\ verifies = 0
    /\ pc = "loop"

\* C5: when the audio and image results are both 6 characters long and differ,
\* the audio value is submitted first and the image value only after the
\* audio value was rejected; when exactly one of them is 6 characters long,
\* only that value is submitted.
C5_AudioBeforeImage ==
    /\ (Six(audio_result) /\ Six(image_result) /\ audio_result.val # image_result.val)
       => /\ Len(submitted) <= 2
          /\ (Len(submitted) >= 1 => submitted[1].code = audio_result.val)
          /\ (Len(submitted) = 2 =>
                submitted[2].code = image_result.val /\ ~submitted[1].ok)
          /\ (pc = "sleep" => Len(submitted) = 2)
    /\ (Six(audio_result) /\ ~Six(image_result))
       => /\ Len(submitted) <= 1
          /\ \A k \in 1..Len(submitted) : submitted[k].code = audio_result.val
    /\ (~Six(audio_result) /\ Six(image_result))
       => /\ Len(submitted) <= 1
          /\ \A k \in 1..Len(submitted) : submitted[k].code = image_result.val

C5_Witness ==
    /\ audio_result = Some(Code6B)
    /\ image_result = Some(Code6A)
    /\ SubmittedCodes = << Code6B, Code6A >>
    /\ ~submitted[1].ok
    /\ submitted[2].ok

\* C6: solve_and_verify returns True exactly when a verify call was accepted,
\* it does so in the step of the first acceptance, and after an acceptance no
\* challenge fetch, verify call or sleep happens any more.
C6_ReturnsTrueAtFirstAcceptance ==
    /\ [](solve_ret = "True" <=> accepts > 0)
    /\ [](accepts <= 1)
    /\ [][accepts > 0 =>
            fetches' = fetches /\ verifies' = verifies /\ sleeps' = sleeps]_vars

C6_Witness ==
    /\ solve_ret = "True"
    /\ accepts = 1
    /\ fetches = 3
    /\ verifies = 4
    /\ sleeps = 2
    /\ pc = "returned"

\* C7 as claimed: between every two consecutive challenge fetches of one call
\* exactly the fixed delay CAPTCHA_RETRY_DELAY was slept.
C7_SleepBetweenFetches ==
    fetches >= 2 => (gap # << >> /\ \A k \in 1..Len(gap) : gap[k] = CAPTCHA_RETRY_DELAY)

---------------------------------------------------------------------------
(* Properties of search_causelist *)

\* C8: the requests of one search_causelist call occur in the order handshake
\* GET, challenge fetches and verify calls, search POST, document GET; the
\* search POST is issued only after an accepted verify call; when
\* solve_and_verify returned False the call has raised and has issued neither
\* the search POST nor the document GET.
C8_RequestOrder ==
    /\ [][inits' # inits =>
            inits = 0 /\ fetches = 0 /\ verifies = 0 /\ posts = 0 /\ docs = 0]_vars
    /\ [][fetches' # fetches \/ verifies' # verifies =>
            inits = 1 /\ posts = 0 /\ docs = 0]_vars
    /\ [][posts' # posts =>
            inits = 1 /\ accepts > 0 /\ solve_ret = "True" /\ posts = 0 /\ docs = 0]_vars
    /\ [][docs' # docs => inits = 1 /\ posts = 1 /\ docs = 0]_vars
    /\ [](solve_ret = "False" =>
            pc = "raised" /\ error = "RuntimeError" /\ posts = 0 /\ docs = 0)

C8_Witness ==
    /\ pc = "returned"
    /\ retval.kind = "str"
    /\ inits = 1
    /\ fetches = 2
    /\ verifies = 2
    /\ posts = 1
    /\ docs = 1

\* the search POST was answered
Answered == post_status \in HttpStatuses

\* C9 as claimed: search_causelist returns None, without a document GET, when
\* the body of the search response is "", "No Record Found" or "NA", and in no
\* other case.
C9_NoneExactlyOnSentinelBody ==
    /\ (Answered /\ raw_body \in {<<>>, NoRecordFound, NA})
       => (retval = RetNone /\ docs = 0 /\ pc = "returned")
    /\ retval = RetNone => raw_body \in {<<>>, NoRecordFound, NA}

\* C9 as amended: search_causelist returns None, without a document GET, when
\* the body of the search response with its leading and trailing whitespace
\* removed is "", "No Record Found" or "NA", and in no other case.
C9_NoneExactlyOnStrippedSentinel ==
    /\ (Answered /\ Strip(raw_body) \in {<<>>, NoRecordFound, NA})
       => (retval = RetNone /\ docs = 0 /\ pc = "returned")
    /\ retval = RetNone => (Answered /\ Strip(raw_body) \in {<<>>, NoRecordFound, NA})
    /\ (pc = "returned" /\ retval # RetNone) => (retval.kind = "str" /\ docs = 1)

C9_Witness ==
    /\ retval = RetNone
    /\ raw_body = NA
    /\ docs = 0
    /\ pc = "returned"

\* a letter of a URL scheme
IsAlpha(c) ==
    c \in {"a", "b", "c", "d", "e", "f", "g", "h", "i", "j", "k", "l", "m",
           "n", "o", "p", "q", "r", "s", "t", "u", "v", "w", "x", "y", "z"}

\* the text begins with a URL scheme:  letters "://"
BeginsWithUrlScheme(s) ==
    \E n \in 1..(Len(s) - 3) :
        /\ \A k \in 1..n : IsAlpha(s[k])
        /\ SubSeq(s, n + 1, n + 3) = <<":", "/", "/">>

ExpectedRelativeUrl == <<"h", "t", "t", "p", "s", ":", "/", "/", "h", "c", "r", "a", "j", ".", "n", "i", "c", ".", "i", "n", "/", "c", "i", "s", "h", "c", "r", "a", "j", "-", "j", "p", "/", "c", "a", "u", "s", "e", "l", "i", "s", "t", "/", "o", "u", "t", "p", "u", "t", "/", "1", "2", "3", ".", "h", "t", "m", "l">>

---------------------------------------------------------------------------
(* Error handling of search_causelist *)

\* the ways a request ends without a usable response
Failures == {"http_error", "timeout", "bad_json", "invalid_url"}

\* C11: when the document GET fails (failure status, no response, or a
\* location that cannot be requested) search_causelist has raised an error:
\* it has returned neither None nor content.
C11_DocumentFailureRaises ==
    outcome.doc \in Failures =>
        /\ pc = "raised"
        /\ error \in {"HTTPError", "Timeout", "MissingSchema"}
        /\ retval = RetUnset

C11_Witness ==
    /\ outcome.doc = "http_error"
    /\ docs = 1
    /\ pc = "raised"
    /\ error = "HTTPError"

\* C12 as claimed: a search POST answered with a failure status makes
\* search_causelist raise a transport error; it neither returns None nor goes
\* on to the document GET.
C12_PostFailureIsTransportError ==
    post_status = 500 =>
        /\ pc = "raised"
        /\ error = "HTTPError"
        /\ retval # RetNone
        /\ docs = 0

\* C13: captcha exhaustion is raised as a RuntimeError and never returned as
\* None, and no failed request (handshake, challenge fetch, verify or search
\* POST without response, document fetch) is raised as a RuntimeError.
C13_ExhaustionDistinctFromTransport ==
    /\ solve_ret = "False" =>
         (pc = "raised" /\ IsRuntimeError(error) /\ retval = RetUnset)
    /\ (\/ outcome.init \in Failures
        \/ outcome.fetch \in Failures
        \/ outcome.verify = "timeout"
        \/ outcome.post \in Failures
        \/ outcome.doc \in Failures)
       => (pc = "raised" /\ error # "" /\ ~IsRuntimeError(error))
    /\ IsRuntimeError(error) => solve_ret = "False"

C13_Witness ==
    /\ solve_ret = "False"
    /\ pc = "raised"
    /\ IsRuntimeError(error)
    /\ outcome.fetch = "ok"

\* C14: initialize_session issues one GET of the main page and never a second
\* one; when that GET fails search_causelist has raised and has issued no
\* challenge fetch, verify call, search POST or document GET.
C14_HandshakeOnceAndFatal ==
    /\ inits <= 1
    /\ pc # "start" => inits = 1
    /\ outcome.init \in Failures =>
         /\ pc = "raised"
         /\ error \in {"HTTPError", "Timeout"}
         /\ fetches = 0 /\ verifies = 0 /\ posts = 0 /\ docs = 0

C14_Witness ==
    /\ outcome.init = "http_error"
    /\ inits = 1
    /\ pc = "raised"

\* C38 as claimed: once a challenge fetch or a verify request has failed in
\* transport (failure status, or no response) solve_and_verify has ended with
\* an error: it has returned neither True nor False, and no search POST and no
\* document GET has been issued.
C38_TransportFailureEndsSolve ==
    (outcome.fetch \in Failures \/ outcome.verify \in Failures) =>
        /\ pc = "raised"
        /\ solve_ret = "raised"
        /\ error # ""
        /\ posts = 0
        /\ docs = 0

---------------------------------------------------------------------------
(* verify_captcha on its own: one call, for every response text built from *)
(* a few fragments                                                          *)

\* number of fragments a response text of the verify endpoint is built from
MaxFragments == 3

\* pieces of response texts: the two markers, parts of them, other text
VerifyFragments ==
    { SecCodeError,
      Invalid,
      <<"S", "e", "c">>,
      <<"C", "o", "d", "e", "E", "r", "r", "o", "r">>,
      <<"i", "n", "v", "a", "l", "i", "d">>,
      <<"O", "K">>,
      <<" ">> }

RECURSIVE Flatten(_)
Flatten(parts) ==
    IF parts = << >> THEN << >> ELSE Head(parts) \o Flatten(Tail(parts))

\* the response texts of the verify endpoint
VerifyTexts ==
    { Flatten(parts) :
        parts \in UNION { [1..n -> VerifyFragments] : n \in 0..MaxFragments } }

VerifyInit ==
    /\ SearchInit
    /\ SelectIdle
    /\ BotIdle
    /\ ParseIdle
    /\ GroupIdle /\ DateIdle /\ FormatIdle /\ SchedIdle
    /\ resp_text \in VerifyTexts
    /\ verify_ret = "unset"

\* verify_captcha: the POST (which raises when no response arrives) and the
\* test of resp.text
VerifyCall ==
    /\ verify_ret = "unset"
    /\ \E o \in {"response", "timeout"} :
         verify_ret' = IF o = "timeout" THEN "raised"
                       ELSE IF verify_captcha(resp_text) THEN "True" ELSE "False"
    /\ UNCHANGED <<resp_text, verifyOthers>>

VerifyNext == VerifyCall

VerifySpec == VerifyInit /\ [][VerifyNext]_vars

\* the marker occurs in the text: the text is some prefix, the marker, some suffix
Occurs(marker, text) ==
    \E i \in 0..Len(text) : \E j \in i..Len(text) :
        text = SubSeq(text, 1, i) \o marker \o SubSeq(text, j + 1, Len(text))

\* C16: verify_captcha returns True exactly when neither "SecCodeError" nor
\* "Invalid" occurs in the response body; nothing else has to occur in it, so
\* the empty body is accepted.
C16_AcceptedIffNoRejectionMarker ==
    /\ verify_ret = "True" =>
         (~Occurs(SecCodeError, resp_text) /\ ~Occurs(Invalid, resp_text))
    /\ verify_ret = "False" =>
         (Occurs(SecCodeError, resp_text) \/ Occurs(Invalid, resp_text))
    /\ (verify_ret \in {"True", "False"} /\ resp_text = << >>) => verify_ret = "True"

C16_Witness ==
    /\ verify_ret = "False"
    /\ resp_text = <<"O", "K", " ">> \o Invalid
    /\ ~Occurs(SecCodeError, resp_text)

---------------------------------------------------------------------------
(* The candidate selection at the end of solve_audio_captcha and of         *)
(* solve_image_captcha                                                      *)

\* number of candidates one recogniser produces
MaxCandidates == 3

Code4 == <<"1", "2", "3", "4">>

\* digit strings a transcription or an OCR pass produces (never empty)
CandidateStrings == {Code4, Code5, Code6A, Code6B, Code7}

\* [c for c in all_candidates if len(c) == 6]
IsSixLong(c) == Len(c) = 6
SixDigit(cands) == SelectSeq(cands, IsSixLong)

\* Counter(six_digit): its keys, in the order of their first occurrence
RECURSIVE CounterKeys(_)
CounterKeys(cands) ==
    IF cands = << >> THEN << >>
    ELSE LET rest == CounterKeys(SubSeq(cands, 1, Len(cands) - 1))
             last == cands[Len(cands)]
         IN IF \E k \in 1..Len(rest) : rest[k] = last
            THEN rest
            ELSE Append(rest, last)

\* Counter(six_digit)[c]
CounterCount(cands, c) == Cardinality({k \in 1..Len(cands) : cands[k] = c})

\* variant: a later key with the same count replaces the earlier one
RECURSIVE MaxByCountLastOfTies(_, _, _)
MaxByCountLastOfTies(keys, cands, sofar) ==
    IF keys = << >> THEN sofar
    ELSE MaxByCountLastOfTies(Tail(keys), cands,
             IF CounterCount(cands, Head(keys)) >= CounterCount(cands, sofar)
             THEN Head(keys) ELSE sofar)

\* max(counts.items(), key=count), as most_common(1) computes it: the first
\* key in iteration order whose count no other key exceeds
RECURSIVE MaxByCount(_, _, _)
MaxByCount(keys, cands, sofar) ==
    IF keys = << >> THEN sofar
    ELSE MaxByCount(Tail(keys), cands,
             IF CounterCount(cands, Head(keys)) > CounterCount(cands, sofar)
             THEN Head(keys) ELSE sofar)

\* variant: the votes are not counted, the first 6-digit candidate wins
MostCommonFirstSeen(six) == Head(six)

\* counts.most_common(1)[0][0], for a non-empty list
MostCommon(six) ==
    MaxByCount(Tail(CounterKeys(six)), six, Head(CounterKeys(six)))

\* abs(len(c) - 6)
DistanceToSix(c) == IF Len(c) >= 6 THEN Len(c) - 6 ELSE 6 - Len(c)

\* variant: a later candidate at the same distance replaces the earlier one
RECURSIVE MinByDistanceLastOfTies(_, _)
MinByDistanceLastOfTies(cands, sofar) ==
    IF cands = << >> THEN sofar
    ELSE MinByDistanceLastOfTies(Tail(cands),
             IF DistanceToSix(Head(cands)) <= DistanceToSix(sofar)
             THEN Head(cands) ELSE sofar)

\* min(all_candidates, key=distance): the first candidate no other is closer than
RECURSIVE MinByDistance(_, _)
MinByDistance(cands, sofar) ==
    IF cands = << >> THEN sofar
    ELSE MinByDistance(Tail(cands),
             IF DistanceToSix(Head(cands)) < DistanceToSix(sofar)
             THEN Head(cands) ELSE sofar)

\* min(all_candidates, key=lambda c: abs(len(c) - 6)), for a non-empty list
ClosestToSix(cands) == MinByDistance(Tail(cands), Head(cands))

\* solve_audio_captcha, from "Prefer 6-digit results" to the return
AudioBest(cands) ==
    IF SixDigit(cands) # << >> THEN Some(MostCommon(SixDigit(cands)))
    ELSE IF cands # << >> THEN Some(ClosestToSix(cands))
    ELSE None

\* solve_image_captcha, from "Prefer 6-digit results" to the return
ImageBest(cands) ==
    IF SixDigit(cands) # << >> THEN Some(MostCommon(SixDigit(cands)))
    ELSE IF cands # << >> THEN Some(ClosestToSix(cands))
    ELSE None

\* solve_audio_captcha: the import of the backend, then the recognition
solve_audio_captcha(available, cands) ==
    IF ~available THEN None ELSE AudioBest(cands)

\* solve_image_captcha: the import of the backend, then the recognition
solve_image_captcha(available, cands) ==
    IF ~available THEN None ELSE ImageBest(cands)

\* the candidate lists of at most MaxCandidates strings
CandidateLists ==
    UNION { [1..n -> CandidateStrings] : n \in 0..MaxCandidates }

\* the orders the candidates of a list can be produced in
Reorderings(cands) ==
    { [k \in 1..Len(cands) |-> cands[f[k]]] : f \in Permutations(1..Len(cands)) }

SelectInit ==
    /\ SearchInit
    /\ VerifyIdle
    /\ BotIdle
    /\ ParseIdle
    /\ GroupIdle /\ DateIdle /\ FormatIdle /\ SchedIdle
    /\ all_candidates \in CandidateLists
    /\ permuted \in Reorderings(all_candidates)
    /\ modality = ""
    /\ best = None
    /\ best_permuted = None
    /\ best_unavailable = None

\* the end of solve_audio_captcha, for the candidates in both orders
SolveAudio ==
    /\ modality = ""
    /\ modality' = "audio"
    /\ best' = AudioBest(all_candidates)
    /\ best_permuted' = AudioBest(permuted)
    /\ best_unavailable' = solve_audio_captcha(FALSE, all_candidates)
    /\ UNCHANGED <<all_candidates, permuted, selectOthers>>

\* the end of solve_image_captcha, for the candidates in both orders
SolveImage ==
    /\ modality = ""
    /\ modality' = "image"
    /\ best' = ImageBest(all_candidates)
    /\ best_permuted' = ImageBest(permuted)
    /\ best_unavailable' = solve_image_captcha(FALSE, all_candidates)
    /\ UNCHANGED <<all_candidates, permuted, selectOthers>>

SelectNext == SolveAudio \/ SolveImage

SelectSpec == SelectInit /\ [][SelectNext]_vars

---------------------------------------------------------------------------
(* Properties of the candidate selection *)

\* number of times c occurs in the list
Occurrences(cands, c) == Cardinality({k \in 1..Len(cands) : cands[k] = c})

\* where c occurs first in the list
FirstIndex(cands, c) ==
    CHOOSE k \in 1..Len(cands) :
        cands[k] = c /\ \A j \in 1..(k - 1) : cands[j] # c

HasSixLong(cands) == \E k \in 1..Len(cands) : Len(cands[k]) = 6

\* C17: when the candidate list of a recogniser holds a string of length 6,
\* the recogniser returns a string of length 6 of the list that no other
\* string of length 6 occurs more often than, and among the strings of length
\* 6 that occur as often it is the one that appears first.
C17_MostFrequentSixFirstSeen ==
    (modality # "" /\ HasSixLong(all_candidates)) =>
        /\ best.some
        /\ Len(best.val) = 6
        /\ Occurrences(all_candidates, best.val) >= 1
        /\ \A k \in 1..Len(all_candidates) :
             Len(all_candidates[k]) = 6 =>
               \/ Occurrences(all_candidates, all_candidates[k])
                    < Occurrences(all_candidates, best.val)
               \/ /\ Occurrences(all_candidates, all_candidates[k])
                       = Occurrences(all_candidates, best.val)
                  /\ FirstIndex(all_candidates, best.val) <= k

C17_Witness ==
    /\ modality = "image"
    /\ all_candidates = << Code5, Code6B, Code6A >>
    /\ best = Some(Code6B)

\* C18: when the candidate list is not empty and holds no string of length 6,
\* the recogniser returns the first string of the list whose length is at the
\* minimal distance from 6; when the list is empty it returns None.
C18_ClosestToSixFirstSeen ==
    (modality # "" /\ ~HasSixLong(all_candidates)) =>
        IF all_candidates = << >>
        THEN best = None
        ELSE /\ best.some
             /\ \E k \in 1..Len(all_candidates) :
                  /\ best.val = all_candidates[k]
                  /\ \A j \in 1..Len(all_candidates) :
                       DistanceToSix(all_candidates[j]) >= DistanceToSix(all_candidates[k])
                  /\ \A j \in 1..(k - 1) :
                       DistanceToSix(all_candidates[j]) > DistanceToSix(all_candidates[k])

C18_Witness ==
    /\ modality = "audio"
    /\ all_candidates = << Code4, Code7, Code5 >>
    /\ best = Some(Code7)

\* C19 as claimed: a recogniser returns the same value for every order of the
\* same candidates.
C19_OrderIndependent ==
    modality # "" => best = best_permuted

\* the strings that win the vote of the list: the most frequent strings of
\* length 6, or without a string of length 6 the strings closest in length to 6
Winners(cands) ==
    IF HasSixLong(cands)
    THEN { cands[k] : k \in { i \in 1..Len(cands) :
             /\ Len(cands[i]) = 6
             /\ \A j \in 1..Len(cands) :
                  Len(cands[j]) = 6 =>
                    Occurrences(cands, cands[j]) <= Occurrences(cands, cands[i]) } }
    ELSE { cands[k] : k \in { i \in 1..Len(cands) :
             \A j \in 1..Len(cands) :
                DistanceToSix(cands[j]) >= DistanceToSix(cands[i]) } }

\* C19 as amended: the order of the candidates decides the returned value only
\* among tied winners: for every order of the same candidates the recogniser
\* returns one of the winners of the vote (hence a value with the same number
\* of occurrences, or without a string of length 6 the same distance from 6),
\* and when there is a single winner it returns the same value for every order.
C19_OrderDecidesOnlyTies ==
    modality # "" =>
        /\ best.some = best_permuted.some
        /\ best.some => /\ best.val \in Winners(all_candidates)
                        /\ best_permuted.val \in Winners(all_candidates)
        /\ Cardinality(Winners(all_candidates)) = 1 => best = best_permuted

C19_Witness ==
    /\ modality = "audio"
    /\ all_candidates = << Code6A, Code6B, Code6B >>
    /\ permuted = << Code6B, Code6A, Code6B >>
    /\ best = Some(Code6B)
    /\ best_permuted = Some(Code6B)

---------------------------------------------------------------------------
(* The bot's entry points: bot/scheduler.py scheduled_fetch_and_notify and    *)
(* bot/handlers.py _do_fetch. Both are coroutines of one event loop and run   *)
(* each search in a worker thread (asyncio.to_thread), so the steps of their  *)
(* searches interleave freely.                                                 *)

\* searches one entry point runs: cause-list types x lawyer names
MaxSearches == 2

\* variant: one module-level session shared by every client
SharedSession(created) == 1

\* CauseListClient.__init__: requests.Session() constructs an object distinct
\* from every session constructed before
NewSession(created) == created + 1

\* the session verify_captcha is called with in solve_and_verify
VerifySession(p) == run_session[p]

Running(p) == run_pc[p] # "idle"

\* search_causelist returns or raises: the entry point goes on to its next pair
EndSearch(p) ==
    /\ run_pc' = [run_pc EXCEPT ![p] = "idle"]
    /\ run_session' = [run_session EXCEPT ![p] = 0]
    /\ run_challenge' = [run_challenge EXCEPT ![p] = 0]
    /\ run_attempt' = [run_attempt EXCEPT ![p] = 0]
    /\ run_searches' = [run_searches EXCEPT ![p] = @ + 1]

\* client = CauseListClient()
CreateClient(p) ==
    /\ run_pc[p] = "idle"
    /\ run_searches[p] < MaxSearches
    /\ LET s == NewSession(sessions_created) IN
         /\ run_session' = [run_session EXCEPT ![p] = s]
         /\ backed' = IF s \in DOMAIN backed
                      THEN [backed EXCEPT ![s] = @ + 1]
                      ELSE Append(backed, 1)
    /\ sessions_created' = sessions_created + 1
    /\ run_pc' = [run_pc EXCEPT ![p] = "init"]
    /\ UNCHANGED <<run_challenge, run_attempt, run_searches, run_verified, botOthers>>

\* self.initialize_session(): the main-page GET on self.session
BotInitializeSession(p) ==
    /\ run_pc[p] = "init"
    /\ \E ok \in BOOLEAN :
         IF ok
         THEN /\ run_pc' = [run_pc EXCEPT ![p] = "fetch"]
              /\ run_attempt' = [run_attempt EXCEPT ![p] = 1]
              /\ UNCHANGED <<run_session, run_challenge, run_searches>>
         ELSE EndSearch(p)
    /\ UNCHANGED <<run_verified, sessions_created, backed, botOthers>>

\* fetch_captcha(session): the challenge belongs to the session it is fetched on
BotFetchCaptcha(p) ==
    /\ run_pc[p] = "fetch"
    /\ \E ok \in BOOLEAN :
         IF ok
         THEN /\ run_pc' = [run_pc EXCEPT ![p] = "verify"]
              /\ run_challenge' = [run_challenge EXCEPT ![p] = run_session[p]]
              /\ UNCHANGED <<run_session, run_attempt, run_searches>>
         ELSE EndSearch(p)
    /\ UNCHANGED <<run_verified, sessions_created, backed, botOthers>>

\* the end of an attempt that verified nothing
BotNextAttempt(p) ==
    IF run_attempt[p] < MAX_CAPTCHA_RETRIES
    THEN /\ run_pc' = [run_pc EXCEPT ![p] = "fetch"]
         /\ run_attempt' = [run_attempt EXCEPT ![p] = @ + 1]
         /\ UNCHANGED <<run_session, run_challenge, run_searches>>
    ELSE EndSearch(p)

\* the recognisers gave no candidate of length 6: no verify in this attempt
BotNoCandidates(p) ==
    /\ run_pc[p] = "verify"
    /\ BotNextAttempt(p)
    /\ UNCHANGED <<run_verified, sessions_created, backed, botOthers>>

\* verify_captcha(session, solution) for the candidates of the attempt
BotVerify(p) ==
    /\ run_pc[p] = "verify"
    /\ run_verified' = [run_verified EXCEPT ![p] = <<run_challenge[p], VerifySession(p)>>]
    /\ \E accepted \in BOOLEAN :
         IF accepted
         THEN /\ run_pc' = [run_pc EXCEPT ![p] = "request"]
              /\ UNCHANGED <<run_session, run_challenge, run_attempt, run_searches>>
         ELSE BotNextAttempt(p)
    /\ UNCHANGED <<sessions_created, backed, botOthers>>

\* the search POST and the document GET on self.session, then the return
BotRequest(p) ==
    /\ run_pc[p] = "request"
    /\ EndSearch(p)
    /\ UNCHANGED <<run_verified, sessions_created, backed, botOthers>>

BotInit == SearchInit /\ VerifyIdle /\ SelectIdle /\ BotIdle /\ ParseIdle /\ GroupIdle /\ DateIdle /\ FormatIdle /\ SchedIdle

BotNext ==
    \E p \in Callers :
        \/ CreateClient(p)
        \/ BotInitializeSession(p)
        \/ BotFetchCaptcha(p)
        \/ BotNoCandidates(p)
        \/ BotVerify(p)
        \/ BotRequest(p)

BotSpec == BotInit /\ [][BotNext]_vars

\* C15: every search of the bot's entry points runs on a session constructed
\* for it: no session backs more than one search, two searches that run at the
\* same time never use the same session, and a challenge is verified on the
\* session it was fetched on.
C15_OneSessionPerSearch ==
    /\ \A s \in DOMAIN backed : backed[s] = 1
    /\ \A p, q \in Callers :
         (p # q /\ Running(p) /\ Running(q)) => run_session[p] # run_session[q]
    /\ \A p \in Callers :
         run_verified[p] # <<0, 0>> => run_verified[p][1] = run_verified[p][2]

\* both entry points have verified a challenge and their searches still run
C15_Witness ==
    /\ run_pc["job"] = "request"
    /\ run_pc["fetch"] = "verify"
    /\ run_verified["job"] = <<run_session["job"], run_session["job"]>>
    /\ run_verified["fetch"] = <<run_session["fetch"], run_session["fetch"]>>
    /\ run_session["job"] # 0
    /\ run_session["fetch"] # 0

---------------------------------------------------------------------------
(* causelist/parser.py: parse_to_records. A cell is the sequence of the texts *)
(* that its <br> tags separate, a row is the sequence of its cells.          *)

\* rows of one document
MaxRows == 4

\* str.isdigit() of one character
IsDigit(c) == c \in {"0", "1", "2", "3", "4", "5", "6", "7", "8", "9"}

Uppers == <<"A", "B", "C", "D", "E", "F", "G", "H", "I", "J", "K", "L", "M", "N", "O", "P", "Q", "R", "S", "T", "U", "V", "W", "X", "Y", "Z">>
Lowers == <<"a", "b", "c", "d", "e", "f", "g", "h", "i", "j", "k", "l", "m", "n", "o", "p", "q", "r", "s", "t", "u", "v", "w", "x", "y", "z">>

LowerChar(c) ==
    IF \E i \in 1..Len(Uppers) : Uppers[i] = c
    THEN Lowers[CHOOSE i \in 1..Len(Uppers) : Uppers[i] = c]
    ELSE c

\* str.lower()
Lower(s) == [i \in 1..Len(s) |-> LowerChar(s[i])]

\* sep.join(parts)
RECURSIVE Join(_, _)
Join(sep, parts) ==
    IF parts = << >> THEN << >>
    ELSE IF Len(parts) = 1 THEN parts[1]
    ELSE parts[1] \o sep \o Join(sep, Tail(parts))

\* s.replace(old, new), for a non-empty old
RECURSIVE Replace(_, _, _)
Replace(s, old, new) ==
    IF Len(s) < Len(old) THEN s
    ELSE IF StartsWith(s, old)
         THEN new \o Replace(SubSeq(s, Len(old) + 1, Len(s)), old, new)
         ELSE << Head(s) >> \o Replace(Tail(s), old, new)

\* any(k in s for k in keywords)
ContainsAny(s, keywords) == \E k \in keywords : Contains(s, k)

\* the elements of a list of strings that are not empty, in order
RECURSIVE NonEmpty(_)
NonEmpty(parts) ==
    IF parts = << >> THEN << >>
    ELSE IF Head(parts) = << >> THEN NonEmpty(Tail(parts))
    ELSE << Head(parts) >> \o NonEmpty(Tail(parts))

\* literals of parse_to_records
PageKeywords == { <<"p", "a", "g", "e">>, <<"o", "f">> }
CourtKeywords == { <<"c", "o", "u", "r", "t", " ", "n", "o">>, <<"c", "o", "u", "r", "t", " ", "r", "o", "o", "m">> }
JudgeKeywords == { <<"h", "o", "n", "'", "b", "l", "e">>, <<"j", "u", "s", "t", "i", "c", "e">> }
KwWith == <<"w", "i", "t", "h">>
LitWith == <<"W", "i", "t", "h">>
ColumnHeaderKeywords ==
    { <<"s", ".", "n", "o">>,
      <<"s", "r", ".", "n", "o">>,
      <<"c", "a", "s", "e", " ", "t", "y", "p", "e">>,
      <<"n", "a", "m", "e", " ", "o", "f", " ", "a", "d", "v", "o", "c", "a", "t", "e">> }
CategorySkipKeywords ==
    { <<"h", "i", "g", "h", " ", "c", "o", "u", "r", "t">>,
      <<"w", "e", "b", "s", "i", "t", "e">>,
      <<"c", "a", "u", "s", "e", "l", "i", "s", "t">>,
      <<"w", "e", "b", "e", "x">>,
      <<"c", "i", "s", "c", "o">>,
      <<"n", "o", "t", "e", ":">> }
MiscSkipKeywords ==
    { <<"h", "i", "g", "h", " ", "c", "o", "u", "r", "t">>,
      <<"w", "e", "b", "s", "i", "t", "e">>,
      <<"=">>,
      <<"-", "-", "-">> }
SepSpace == <<" ">>
SepBar == <<" ", "|", " ">>
SepComma == <<",", " ">>
General == <<"G", "e", "n", "e", "r", "a", "l">>
SepVs == <<" ", "V", "s", " ">>

\* the parts of a cell as _br_to_separator and _extract_title collect them:
\* the text before each <br> and after the last, stripped, the empty ones dropped
Parts(cell) == NonEmpty([i \in 1..Len(cell) |-> Strip(cell[i])])

\* c.get_text(strip=True): the stripped strings of the cell, concatenated
get_text(cell) == Join(<< >>, Parts(cell))

br_to_separator(cell, separator) == Join(separator, Parts(cell))

extract_title(cell) ==
    LET parts == Parts(cell) IN
    IF Len(parts) <= 1
    THEN (IF parts # << >> THEN parts[1] ELSE << >>)
    ELSE parts[1] \o SepVs \o Join(SepSpace, Tail(parts))

CellTexts(tr) == [i \in 1..Len(tr) |-> get_text(tr[i])]
FullText(tr) == Strip(Join(SepSpace, CellTexts(tr)))
LowerText(tr) == Lower(FullText(tr))

\* cell_texts[0][:1].isdigit()
FirstIsDigit(text) == text # << >> /\ IsDigit(text[1])

\* variant: the data rule is tried before the header rules
RowKindDataFirst(tr) ==
    LET cell_texts == CellTexts(tr)
        full_text == FullText(tr)
        lower_text == LowerText(tr)
    IN
    IF cell_texts = << >> THEN "no_cells"
    ELSE IF Len(cell_texts) >= 3 /\ FirstIsDigit(cell_texts[1]) THEN "data"
    ELSE IF full_text = << >> \/ (\A k \in PageKeywords : Contains(lower_text, k))
    THEN "blank_or_page"
    ELSE IF ContainsAny(lower_text, CourtKeywords) THEN "court"
    ELSE IF ContainsAny(lower_text, JudgeKeywords) THEN "judge"
    ELSE IF ContainsAny(lower_text, ColumnHeaderKeywords) THEN "column_header"
    ELSE IF Len(cell_texts) <= 2 /\ ~FirstIsDigit(cell_texts[1])
    THEN (IF ContainsAny(lower_text, CategorySkipKeywords)
          THEN "boilerplate" ELSE "category")
    ELSE IF Len(cell_texts) >= 3
    THEN (IF ~ContainsAny(lower_text, MiscSkipKeywords)
          THEN "misc_category" ELSE "misc_skip")
    ELSE "unclassified"

\* the branch of the loop body a row takes, the tests in the order of the code
RowKind(tr) ==
    LET cell_texts == CellTexts(tr)
        full_text == FullText(tr)
        lower_text == LowerText(tr)
    IN
    IF cell_texts = << >> THEN "no_cells"
    ELSE IF full_text = << >> \/ (\A k \in PageKeywords : Contains(lower_text, k))
    THEN "blank_or_page"
    ELSE IF ContainsAny(lower_text, CourtKeywords)
    THEN "court"
    ELSE IF ContainsAny(lower_text, JudgeKeywords)
    THEN "judge"
    ELSE IF ContainsAny(lower_text, ColumnHeaderKeywords)
    THEN "column_header"
    ELSE IF Len(cell_texts) <= 2 /\ full_text # << >> /\ ~FirstIsDigit(cell_texts[1])
    THEN (IF ContainsAny(lower_text, CategorySkipKeywords)
          THEN "boilerplate" ELSE "category")
    ELSE IF Len(cell_texts) >= 3
    THEN (LET sno == cell_texts[1] IN
          IF sno = << >> \/ (~IsDigit(sno[1]) /\ ~Contains(Lower(sno), KwWith))
          THEN (IF full_text # << >> /\ ~ContainsAny(lower_text, MiscSkipKeywords)
                THEN "misc_category" ELSE "misc_skip")
          ELSE "data")
    ELSE "unclassified"

\* variant: the title cell is taken for an advocate cell too (cells[2:])
AdvocatesFromTitleCell(tr) ==
    Join(SepBar, NonEmpty([i \in 1..(Len(tr) - 2) |-> br_to_separator(tr[i + 2], SepComma)]))

\* advocates: cells[3:], each with <br> as ", ", the non-empty ones joined with " | "
Advocates(tr) ==
    Join(SepBar, NonEmpty([i \in 1..(Len(tr) - 3) |-> br_to_separator(tr[i + 3], SepComma)]))

\* sno.replace("With", "").strip()
SerialNo(sno) == Strip(Replace(sno, LitWith, << >>))

\* the CaseEntry of a data row
CaseEntry(tr, court, judge, category) ==
    [ serial_no    |-> SerialNo(CellTexts(tr)[1]),
      case_type_no |-> CellTexts(tr)[2],
      title        |-> extract_title(tr[3]),
      advocates    |-> Advocates(tr),
      court_no     |-> court,
      judge_name   |-> judge,
      category     |-> category ]

\* the row of the specification's example
RowExample ==
    << << <<"1">> >>,
       << <<"C", "R", "L", "M", "P", "/", "1", "2", "3">> >>,
       << <<"F", "o", "o", " ", "V", "s", " ", "B", "a", "r">> >>,
       << <<"A", "D", "V", " ", "A", ",", " ", "A", "D", "V", " ", "B">> >> >>

\* a data row whose title and advocate cells hold <br> tags, one advocate cell empty
RowWithBreaks ==
    << << <<"2">> >>,
       << <<" ", "C", "W", "/", "7", " ">> >>,
       << <<"F", "o", "o", " ">>, <<" ", "B", "a", "r">> >>,
       << <<"A">>, <<>>, <<"B">> >>,
       << <<" ">> >>,
       << <<"C">> >> >>

\* a connected case: the serial number follows the marker
RowContinuation ==
    << << <<"W", "i", "t", "h", " ", "1", "a">> >>,
       << <<"C", "W", "/", "8">> >>,
       << <<"X">> >>,
       << <<"Y">> >> >>

\* a serial number followed by the marker
RowDigitWith ==
    << << <<"3", " ", "W", "i", "t", "h">> >>,
       << <<"C", "W", "/", "9">> >>,
       << <<"X">> >>,
       << <<"Y">> >> >>

\* the marker written inside the marker
RowNestedMarker ==
    << << <<"W", "W", "i", "t", "h", "i", "t", "h", " ", "2">> >>,
       << <<"C", "W", "/", "1">> >>,
       << <<"X">> >>,
       << <<"Y">> >> >>

\* rows a result document can hold
SampleRows ==
    { RowExample, RowWithBreaks, RowContinuation, RowDigitWith, RowNestedMarker,
      \* a court header
      << << <<"C", "o", "u", "r", "t", " ", "N", "o", " ", ":", " ", "2">> >> >>,
      \* a row of four cells, the first a number, that names a court
      << << <<"4">> >>,
         << <<"C", "o", "u", "r", "t", " ", "N", "o", " ", "5">> >>,
         << <<"X">> >>,
         << <<"Y">> >> >>,
      \* a judge row with an empty cell
      << << <<"H", "O", "N", "'", "B", "L", "E", " ", "A">> >>,
         << <<>> >>,
         << <<"B">> >> >>,
      \* the column header
      << << <<"S", ".", "N", "o", ".">> >>,
         << <<"C", "a", "s", "e", " ", "T", "y", "p", "e">> >>,
         << <<"T", "i", "t", "l", "e">> >> >>,
      \* a page footer
      << << <<"P", "a", "g", "e", " ", "1", " ", "o", "f", " ", "2">> >> >>,
      \* a row of blank cells
      << << <<>> >>,
         << <<" ">> >> >>,
      \* a category header
      << << <<"F", "O", "R", " ", "A", "D", "M", "I", "S", "S", "I", "O", "N">> >> >>,
      \* the site name
      << << <<"R", "A", "J", "A", "S", "T", "H", "A", "N", " ", "H", "I", "G", "H", " ", "C", "O", "U", "R", "T">> >> >>,
      \* a sub-header spread over three cells
      << << <<>> >>,
         << <<"F", "O", "R", " ", "O", "R", "D", "E", "R", "S">> >>,
         << <<>> >> >>,
      \* a rule of dashes over three cells
      << << <<"-", "-", "-">> >>,
         << <<>> >>,
         << <<>> >> >>,
      \* a row of two cells, the first a number
      << << <<"5">> >>,
         << <<"x">> >> >>,
      \* a page footer of three cells, the first a number
      << << <<"6">> >>,
         << <<"P", "a", "g", "e", " ", "1", " ", "o", "f", " ", "2">> >>,
         << <<"x">> >> >>,
      \* a judge row of three cells, the first a number
      << << <<"7">> >>,
         << <<"J", "U", "S", "T", "I", "C", "E", " ", "Z">> >>,
         << <<"x">> >> >>,
      \* a column header of three cells, the first a number
      << << <<"8">> >>,
         << <<"C", "a", "s", "e", " ", "T", "y", "p", "e">> >>,
         << <<"x">> >> >>,
      \* a row without cells
      << >> }

\* tables nested in one table that the loop has yet to take
MaxNested == 1

\* the row of a table one of whose cells holds nothing but a table of one row:
\* row.find_all(["td", "th"]) yields that cell, whose strings are those of the
\* inner cells, and then the inner cells
Enclosing(inner) == << Flatten(inner) >> \o inner

\* rows a nested table can hold: a case, a category header
NestedRows ==
    { RowExample,
      << << <<"F", "O", "R", " ", "A", "D", "M", "I", "S", "S", "I", "O", "N">> >> >> }

\* the rows the loop can take: those of a table, and those that enclose one
AllRows == SampleRows \cup { Enclosing(inner) : inner \in NestedRows }

RowKinds == [r \in AllRows |-> RowKind(r)]

\* records = [], current_court = current_judge = current_category = ""
ParseInit == SearchInit /\ VerifyIdle /\ SelectIdle /\ BotIdle /\ ParseIdle /\ GroupIdle /\ DateIdle /\ FormatIdle /\ SchedIdle

\* the row that soup.find_all("table") and table.find_all("tr") yield next.
\* Both searches descend: the rows of a nested table are rows of the table
\* around it, and the nested table is a table of the document once more.
NextRow(r) ==
    \/ \* a row of the table at hand, or of the next table that is not nested
       /\ rows_left = << >>
       /\ in_nested => tables_left = << >>
       /\ r \in SampleRows
       /\ in_nested' = FALSE
       /\ UNCHANGED <<rows_left, tables_left>>
    \/ \* such a row that encloses a table
       /\ rows_left = << >>
       /\ in_nested => tables_left = << >>
       /\ Len(tables_left) < MaxNested
       /\ \E inner \in NestedRows :
            /\ r = Enclosing(inner)
            /\ rows_left' = << inner >>
            /\ tables_left' = Append(tables_left, << inner >>)
       /\ in_nested' = FALSE
    \/ \* the row of the enclosed table, as a row of the table around it
       /\ rows_left # << >>
       /\ r = Head(rows_left)
       /\ rows_left' = Tail(rows_left)
       /\ UNCHANGED <<tables_left, in_nested>>
    \/ \* the first row of the next nested table, taken as a table of its own
       /\ rows_left = << >>
       /\ tables_left # << >>
       /\ r = Head(Head(tables_left))
       /\ rows_left' = Tail(Head(tables_left))
       /\ tables_left' = Tail(tables_left)
       /\ in_nested' = TRUE

\* the loop takes the next row of the document
TakeRow(r) ==
    /\ rows_done < MaxRows
    /\ rows_done' = rows_done + 1
    /\ row' = r
    /\ prev_kind' = (IF rows_done = 0 THEN "" ELSE RowKinds[row])
    /\ NextRow(r)
    /\ UNCHANGED parseOthers

\* variant: a row that no branch takes is not passed over
SkippedKindsWithoutFallThrough ==
    {"no_cells", "blank_or_page", "column_header", "boilerplate", "misc_skip"}

\* the branches that end in continue, or in the end of the loop body, without
\* an effect
SkippedKinds ==
    {"no_cells", "blank_or_page", "column_header", "boilerplate", "misc_skip",
     "unclassified"}

\* continue without an effect: no cells, blank, page footer, column header,
\* boilerplate, a skipped miscellaneous row, or a row no branch takes
SkipRow(r) ==
    /\ RowKinds[r] \in SkippedKinds
    /\ TakeRow(r)
    /\ UNCHANGED <<records, current_court, current_judge, current_category>>

\* variant: the court header keeps the judge of the court before
CourtHeaderKeepsJudge(r) ==
    /\ RowKinds[r] = "court"
    /\ TakeRow(r)
    /\ current_court' = FullText(r)
    /\ current_category' = << >>
    /\ UNCHANGED <<records, current_judge>>

CourtHeader(r) ==
    /\ RowKinds[r] = "court"
    /\ TakeRow(r)
    /\ current_court' = FullText(r)
    /\ current_judge' = << >>
    /\ current_category' = << >>
    /\ UNCHANGED records

JudgeRow(r) ==
    /\ RowKinds[r] = "judge"
    /\ TakeRow(r)
    /\ current_judge' = Join(SepBar, NonEmpty(CellTexts(r)))
    /\ UNCHANGED <<records, current_court, current_category>>

\* variant: the category branch lacks the test for boilerplate
CategoryHeaderOfBoilerplate(r) ==
    /\ RowKinds[r] \in {"category", "boilerplate"}
    /\ TakeRow(r)
    /\ current_category' = FullText(r)
    /\ UNCHANGED <<records, current_court, current_judge>>

\* a category header: at most 2 cells, the first not a number, no boilerplate
CategoryHeader(r) ==
    /\ RowKinds[r] = "category"
    /\ TakeRow(r)
    /\ current_category' = FullText(r)
    /\ UNCHANGED <<records, current_court, current_judge>>

\* a row of three or more cells without a serial number: a sub-header
MiscRow(r) ==
    /\ RowKinds[r] = "misc_category"
    /\ TakeRow(r)
    /\ current_category' = FullText(r)
    /\ UNCHANGED <<records, current_court, current_judge>>

DataRow(r) ==
    /\ RowKinds[r] = "data"
    /\ TakeRow(r)
    /\ records' = Append(records, CaseEntry(r, current_court, current_judge, current_category))
    /\ UNCHANGED <<current_court, current_judge, current_category>>

ParseNext ==
    \E r \in AllRows :
        \/ SkipRow(r)
        \/ CourtHeader(r)
        \/ JudgeRow(r)
        \/ CategoryHeader(r)
        \/ MiscRow(r)
        \/ DataRow(r)

ParseSpec == ParseInit /\ [][ParseNext]_vars

\* the row matches one of the rules that are tried before the data rule and
\* that a row of three cells beginning with a digit can match: page footer,
\* court header, judge row, column header
HigherPriorityRow(r) ==
    LET t == Lower(FullText(r)) IN
    \/ \A k \in PageKeywords : Contains(t, k)
    \/ ContainsAny(t, CourtKeywords \cup JudgeKeywords \cup ColumnHeaderKeywords)

\* a row of at least 3 cells whose first cell starts with a digit and that no
\* rule of higher priority takes
DigitDataRow(r) ==
    /\ Len(r) >= 3
    /\ FirstIsDigit(get_text(r[1]))
    /\ ~HigherPriorityRow(r)

\* the step appends one entry, made of the second, third and later cells of
\* the row it took
AppendsEntryOfRow ==
    /\ Len(records') = Len(records) + 1
    /\ SubSeq(records', 1, Len(records)) = records
    /\ LET e == records'[Len(records')] IN
         /\ e.case_type_no = get_text(row'[2])
         /\ e.title = extract_title(row'[3])
         /\ \A i \in 4..Len(row') : \A k \in 1..Len(Parts(row'[i])) :
                Contains(e.advocates, Parts(row'[i])[k])
         /\ row' = RowExample =>
              /\ e.serial_no = <<"1">>
              /\ e.case_type_no = <<"C", "R", "L", "M", "P", "/", "1", "2", "3">>
              /\ e.title = <<"F", "o", "o", " ", "V", "s", " ", "B", "a", "r">>
              /\ e.advocates = <<"A", "D", "V", " ", "A", ",", " ", "A", "D", "V", " ", "B">>

\* C20 as claimed: a row of at least 3 cells whose first cell starts with a
\* digit, and that no rule of higher priority takes, appends exactly one
\* CaseEntry whose serial_no is the first cell, whose case_type_no is the
\* second cell, whose title comes from the third cell and whose advocates come
\* from the remaining cells; the example row yields "1", "CRLMP/123",
\* "Foo Vs Bar", "ADV A, ADV B".
C20_SerialNoIsFirstCell ==
    [][ DigitDataRow(row') =>
          /\ AppendsEntryOfRow
          /\ records'[Len(records')].serial_no = get_text(row'[1]) ]_vars

\* C20 as amended: such a row appends exactly one CaseEntry whose serial_no is
\* the first cell with every "With" removed and the result stripped (the
\* first cell itself when it holds no "With"), the other fields as claimed.
C20_SerialNoIsFirstCellWithoutMarker ==
    [][ DigitDataRow(row') =>
          /\ AppendsEntryOfRow
          /\ records'[Len(records')].serial_no
               = Strip(Replace(get_text(row'[1]), LitWith, << >>))
          /\ ~Contains(get_text(row'[1]), LitWith) =>
               records'[Len(records')].serial_no = get_text(row'[1]) ]_vars

\* the example row was parsed after a row whose serial number carries the marker
C20_Witness ==
    /\ Len(records) = 2
    /\ records[1].serial_no = <<"3">>
    /\ row = RowExample
    /\ records[2].serial_no = <<"1">>
    /\ records[2].case_type_no = <<"C", "R", "L", "M", "P", "/", "1", "2", "3">>
    /\ records[2].title = <<"F", "o", "o", " ", "V", "s", " ", "B", "a", "r">>
    /\ records[2].advocates = <<"A", "D", "V", " ", "A", ",", " ", "A", "D", "V", " ", "B">>

---------------------------------------------------------------------------
(* Properties of the rows of parse_to_records *)

\* the last entry of a non-empty list of records
LastEntry(recs) == recs[Len(recs)]

\* the step leaves the entries appended before as they are
KeepsEntries == SubSeq(records', 1, Len(records)) = records

\* C21 as claimed: no CaseEntry has a serial_no that contains "With", and a
\* data row whose first cell is "With 1a" yields the serial_no "1a".
C21_SerialNoNeverHoldsMarker ==
    [][ /\ \A i \in 1..Len(records') : ~Contains(records'[i].serial_no, LitWith)
        /\ ( /\ Len(row') >= 3
             /\ get_text(row'[1]) = <<"W", "i", "t", "h", " ", "1", "a">>
             /\ ~HigherPriorityRow(row') ) =>
               /\ Len(records') = Len(records) + 1
               /\ LastEntry(records').serial_no = <<"1", "a">> ]_vars

\* a row without text, or a page footer
PageOrBlankRow(r) ==
    \/ FullText(r) = << >>
    \/ \A k \in PageKeywords : Contains(Lower(FullText(r)), k)

\* a row that names a court and is not a page footer
CourtHeaderRow(r) ==
    /\ ~PageOrBlankRow(r)
    /\ ContainsAny(Lower(FullText(r)), CourtKeywords)

\* a row that names a judge and is neither a page footer nor a court header
JudgeNameRow(r) ==
    /\ ~PageOrBlankRow(r)
    /\ ~CourtHeaderRow(r)
    /\ ContainsAny(Lower(FullText(r)), JudgeKeywords)

\* C22: a court-header row sets the current court to its text and clears the
\* current judge and category; the court changes at court headers only, the
\* judge at court headers and judge rows only, the category at court headers
\* and at rows that are taken for a category only; every CaseEntry carries
\* the court, judge and category current at its row, and keeps them.
C22_StampedWithContextInEffect ==
    [][ /\ CourtHeaderRow(row') =>
             /\ current_court' = FullText(row')
             /\ current_judge' = << >>
             /\ current_category' = << >>
        /\ current_court' # current_court => CourtHeaderRow(row')
        /\ current_judge' # current_judge =>
             \/ CourtHeaderRow(row')
             \/ /\ JudgeNameRow(row')
                /\ current_judge' = Join(SepBar, NonEmpty(CellTexts(row')))
        /\ current_category' # current_category =>
             \/ CourtHeaderRow(row')
             \/ /\ ~HigherPriorityRow(row')
                /\ current_category' = FullText(row')
        /\ KeepsEntries
        /\ Len(records') > Len(records) =>
             /\ Len(records') = Len(records) + 1
             /\ LastEntry(records').court_no = current_court
             /\ LastEntry(records').judge_name = current_judge
             /\ LastEntry(records').category = current_category ]_vars

\* a case was parsed under a court, a judge and a category
C22_Witness ==
    /\ rows_done = 4
    /\ Len(records) = 1
    /\ records[1].court_no = current_court /\ current_court # << >>
    /\ records[1].judge_name = current_judge /\ current_judge # << >>
    /\ records[1].category = current_category /\ current_category # << >>

\* C23: a row that matches the page-footer, court-header, judge-row or
\* column-header rule appends no CaseEntry and leaves the current category as
\* it is, but for the court header that clears it, whatever its cells.
C23_HigherPriorityRuleWins ==
    [][ HigherPriorityRow(row') =>
          /\ records' = records
          /\ \/ current_category' = current_category
             \/ CourtHeaderRow(row') /\ current_category' = << >> ]_vars

\* a judge row of three cells, the first a number, was taken under a category
C23_Witness ==
    /\ Len(row) >= 3
    /\ FirstIsDigit(get_text(row[1]))
    /\ JudgeNameRow(row)
    /\ current_judge = Join(SepBar, CellTexts(row))
    /\ current_category # << >>
    /\ records = << >>

\* a row of the shape of a category header: at most 2 cells, the first not
\* beginning with a digit
CategoryShapedRow(r) ==
    /\ Len(r) <= 2
    /\ ~FirstIsDigit(get_text(r[1]))

\* a row of the shape of a data row: at least 3 cells, the first beginning
\* with a digit or holding the continuation marker
DataShapedRow(r) ==
    /\ Len(r) >= 3
    /\ \/ FirstIsDigit(get_text(r[1]))
       \/ Contains(Lower(get_text(r[1])), KwWith)

\* a row with text that none of the rules 1 to 6 takes and that holds none of
\* the skip keywords
LeftoverRow(r) ==
    /\ r # << >>
    /\ ~PageOrBlankRow(r)
    /\ ~HigherPriorityRow(r)
    /\ ~CategoryShapedRow(r)
    /\ ~DataShapedRow(r)
    /\ ~ContainsAny(Lower(FullText(r)), CategorySkipKeywords \cup MiscSkipKeywords)

\* C24 as claimed: every row with text that the rules 1 to 6 do not take and
\* that holds no skip keyword sets the current category to its full text,
\* whatever its number of cells.
C24_LeftoverRowSetsCategory ==
    [][ LeftoverRow(row') => current_category' = FullText(row') ]_vars

\* C25 as claimed: a CaseEntry parsed while no category is current has the
\* category "General".
C25_CategoryDefaultsToGeneral ==
    [][ (Len(records') > Len(records) /\ current_category = << >>) =>
          LastEntry(records').category = General ]_vars

\* the branches in which a row is passed over, changes the current court,
\* judge or category, or is emitted
TakenKinds ==
    SkippedKinds \cup {"court", "judge", "category", "misc_category", "data"}

\* C29: parse_to_records never stops at a row: every row, of any number of
\* cells, takes a branch in which it is passed over, applied or emitted,
\* whatever rows came before; every step of the loop takes one more row, keeps
\* the entries appended before, and either appends nothing or appends exactly
\* one CaseEntry and leaves the current court, judge and category as they are.
C29_NeverRaises ==
    /\ [](\A r \in SampleRows : RowKinds[r] \in TakenKinds)
    /\ [][ /\ rows_done' = rows_done + 1
           /\ RowKinds[row'] \in TakenKinds
           /\ KeepsEntries
           /\ \/ records' = records
              \/ /\ Len(records') = Len(records) + 1
                 /\ UNCHANGED <<current_court, current_judge, current_category>> ]_vars

\* a case was parsed after a row without cells
C29_Witness ==
    /\ rows_done = 2
    /\ prev_kind = "no_cells"
    /\ row = RowExample
    /\ Len(records) = 1

\* C36 as claimed: the entries are appended in the order of the rows of the
\* document, and no row contributes more than one entry, whatever the tables
\* of the document: a row that the loop has taken before, as a row of the
\* table around its own, appends nothing when the loop takes it again.
C36_OneEntryPerDocumentRow ==
    [][ in_nested' => records' = records ]_vars

\* a column-header row: it holds a column title and none of the rules before
\* the column-header rule takes it
ColumnHeaderRow(r) ==
    /\ ~PageOrBlankRow(r)
    /\ ~CourtHeaderRow(r)
    /\ ~JudgeNameRow(r)
    /\ ContainsAny(Lower(FullText(r)), ColumnHeaderKeywords)

\* a boilerplate row: of the shape of a category header, with the site name,
\* the website or a notice string in its text, and taken by no rule before
BoilerplateRow(r) ==
    /\ r # << >>
    /\ ~PageOrBlankRow(r)
    /\ ~HigherPriorityRow(r)
    /\ CategoryShapedRow(r)
    /\ ContainsAny(Lower(FullText(r)), CategorySkipKeywords)

---------------------------------------------------------------------------
(* causelist/parser.py: group_by_court. An OrderedDict and a dict are the     *)
(* sequences of their items in insertion order.                               *)

\* entries of one records argument
MaxEntries == 3

Unknown == <<"U", "n", "k", "n", "o", "w", "n">>

\* a CaseEntry as parse_to_records builds it
Entry(serial, court, judge, category) ==
    [ serial_no    |-> serial,
      case_type_no |-> <<"C", "W", "/", "1">>,
      title        |-> <<"X">>,
      advocates    |-> <<"Y">>,
      court_no     |-> court,
      judge_name   |-> judge,
      category     |-> category ]

\* entries a records argument can hold: without a court, of a court named
\* "Unknown", of a court; without a category, of the category "General", of a
\* category; of two cases with different judges
SampleEntries ==
    { Entry(c[1], court, c[2], category) :
        c \in { << <<"1">>, <<"J", "1">> >>, << <<"2">>, <<"J", "2">> >> },
        court \in { << >>, Unknown, <<"C", "o", "u", "r", "t", " ", "N", "o", " ", "1">> },
        category \in { << >>, General, <<"F", "O", "R", " ", "A">> } }

\* variant: the judge is part of the key of a section
SectionKeyWithJudge(entry) ==
    (IF entry.court_no # << >> THEN entry.court_no ELSE Unknown) \o entry.judge_name

\* key = entry.court_no or "Unknown"
SectionKey(entry) == IF entry.court_no # << >> THEN entry.court_no ELSE Unknown

\* cat = entry.category or "General"
CategoryKey(entry) == IF entry.category # << >> THEN entry.category ELSE General

\* the place of a key among the items of a dict (0: not in it)
KeyIndex(items, key) ==
    IF \E i \in 1..Len(items) : items[i].key = key
    THEN CHOOSE i \in 1..Len(items) : items[i].key = key
    ELSE 0

\* variant: a new section is put before the sections made so far
InsertSectionFirst(secs, sec) == << sec >> \o secs

\* sections[key] = CourtSection(...), for a key not in sections
InsertSection(secs, sec) == Append(secs, sec)

\* variant: the list of the category is begun anew at every entry
FileUnderReplacing(categories, cat, entry) ==
    LET i == KeyIndex(categories, cat) IN
    IF i = 0
    THEN Append(categories, [key |-> cat, cases |-> << entry >>])
    ELSE [categories EXCEPT ![i].cases = << entry >>]

\* if cat not in section.categories: section.categories[cat] = []
\* section.categories[cat].append(entry)
FileUnder(categories, cat, entry) ==
    LET i == KeyIndex(categories, cat) IN
    IF i = 0
    THEN Append(categories, [key |-> cat, cases |-> << entry >>])
    ELSE [categories EXCEPT ![i].cases = Append(@, entry)]

\* one pass of the loop of group_by_court
AddEntry(secs, entry) ==
    LET key == SectionKey(entry)
        with_section ==
            IF KeyIndex(secs, key) = 0
            THEN InsertSection(secs, [ key        |-> key,
                                       court_no   |-> entry.court_no,
                                       judge_name |-> entry.judge_name,
                                       categories |-> << >> ])
            ELSE secs
        i == KeyIndex(with_section, key)
    IN [with_section EXCEPT ![i].categories = FileUnder(@, CategoryKey(entry), entry)]

GroupInit ==
    SearchInit /\ VerifyIdle /\ SelectIdle /\ BotIdle /\ ParseIdle /\ GroupIdle /\ DateIdle /\ FormatIdle /\ SchedIdle

\* for entry in records: ...
GroupEntry(entry) ==
    /\ Len(grouped) < MaxEntries
    /\ grouped' = Append(grouped, entry)
    /\ sections' = AddEntry(sections, entry)
    /\ UNCHANGED groupOthers

GroupNext == \E entry \in SampleEntries : GroupEntry(entry)

GroupSpec == GroupInit /\ [][GroupNext]_vars

---------------------------------------------------------------------------
(* Properties of group_by_court *)

\* the least element of a non-empty set of numbers
Least(S) == CHOOSE k \in S : \A j \in S : k <= j

\* the places of the argument that hold an entry of the section key
PlacesOfCourt(key) == { k \in 1..Len(grouped) : SectionKey(grouped[k]) = key }

\* the places of the argument that hold an entry of the section and category
PlacesOfCategory(key, cat) ==
    { k \in PlacesOfCourt(key) : CategoryKey(grouped[k]) = cat }

\* C26: the sections are those of the courts of the argument, one each, in the
\* order in which their courts occur first in the argument, each with the
\* court_no of that first entry; the categories of a section are those of
\* its entries, one each, in the order in which they occur first among them.
C26_FirstOccurrenceOrder ==
    /\ { sections[i].key : i \in 1..Len(sections) }
         = { SectionKey(grouped[k]) : k \in 1..Len(grouped) }
    /\ \A i, j \in 1..Len(sections) :
         i < j => Least(PlacesOfCourt(sections[i].key)) < Least(PlacesOfCourt(sections[j].key))
    /\ \A i \in 1..Len(sections) :
         LET sec == sections[i] IN
         /\ sec.court_no = grouped[Least(PlacesOfCourt(sec.key))].court_no
         /\ { sec.categories[j].key : j \in 1..Len(sec.categories) }
              = { CategoryKey(grouped[k]) : k \in PlacesOfCourt(sec.key) }
         /\ \A j, l \in 1..Len(sec.categories) :
              j < l => Least(PlacesOfCategory(sec.key, sec.categories[j].key))
                         < Least(PlacesOfCategory(sec.key, sec.categories[l].key))

\* the second court of the argument comes after the first, the entry without
\* a category after the one with a category
C26_Witness ==
    /\ Len(grouped) = 3
    /\ Len(sections) = 2
    /\ sections[1].key # Unknown
    /\ sections[2].key = Unknown
    /\ grouped[2].court_no = << >>
    /\ Len(sections[1].categories) = 2
    /\ sections[1].categories[1].key # General
    /\ sections[1].categories[2].key = General

\* all the category lists of the sections, one after the other
AllCases ==
    Flatten([i \in 1..Len(sections) |->
               Flatten([j \in 1..Len(sections[i].categories) |->
                          sections[i].categories[j].cases])])

\* C27: the category list of a section holds the entries of the argument of
\* that court and category, each as often as the argument holds it and in the
\* order of the argument; no two sections share a court, no two category lists
\* of a section share a category, and the lists together hold as many entries
\* as the argument.
C27_EveryEntryFiledOnce ==
    /\ \A i, j \in 1..Len(sections) : sections[i].key = sections[j].key => i = j
    /\ \A i \in 1..Len(sections) :
         LET sec == sections[i] IN
         /\ \A j, l \in 1..Len(sec.categories) :
              sec.categories[j].key = sec.categories[l].key => j = l
         /\ \A j \in 1..Len(sec.categories) :
              sec.categories[j].cases
                = SelectSeq(grouped,
                            LAMBDA e : /\ SectionKey(e) = sec.key
                                       /\ CategoryKey(e) = sec.categories[j].key)
    /\ Len(AllCases) = Len(grouped)

\* two cases of one court and category with a case of another court between
C27_Witness ==
    /\ Len(grouped) = 3
    /\ grouped[1] # grouped[3]
    /\ Len(sections) = 2
    /\ Len(sections[1].categories) = 1
    /\ sections[1].categories[1].cases = << grouped[1], grouped[3] >>
    /\ sections[2].categories[1].cases = << grouped[2] >>

\* C28 as claimed: the entries without a court_no are all in one section, and
\* the court_no of that section is "Unknown".
C28_EmptyCourtSectionIsUnknown ==
    \A i \in 1..Len(sections) :
        (\E k \in PlacesOfCourt(sections[i].key) : grouped[k].court_no = << >>) =>
            /\ \A k \in 1..Len(grouped) :
                 grouped[k].court_no = << >> => SectionKey(grouped[k]) = sections[i].key
            /\ sections[i].court_no = Unknown

\* the section holds the entry in one of its category lists
InSection(sec, e) ==
    \E j \in 1..Len(sec.categories) :
        \E n \in 1..Len(sec.categories[j].cases) : sec.categories[j].cases[n] = e

\* C39: two entries of the argument with the same court_no are in one section,
\* whatever lies between them and whatever their judges; the judge_name of a
\* section is that of the first entry of the argument that the section holds.
C39_KeyedByCourtAlone ==
    /\ \A k, l \in 1..Len(grouped) :
         grouped[k].court_no = grouped[l].court_no =>
             \E i \in 1..Len(sections) :
                 InSection(sections[i], grouped[k]) /\ InSection(sections[i], grouped[l])
    /\ \A i \in 1..Len(sections) :
         sections[i].judge_name
           = grouped[Least({ k \in 1..Len(grouped) : InSection(sections[i], grouped[k]) })].judge_name

\* two cases of one court with different judges, a case of another court
\* between them: one section, with the judge of the first
C39_Witness ==
    /\ Len(grouped) = 3
    /\ grouped[1].court_no = grouped[3].court_no
    /\ grouped[1].court_no # << >>
    /\ grouped[2].court_no = << >>
    /\ grouped[1].judge_name # grouped[3].judge_name
    /\ Len(sections) = 2
    /\ InSection(sections[1], grouped[1])
    /\ InSection(sections[1], grouped[3])
    /\ sections[1].judge_name = grouped[1].judge_name

---------------------------------------------------------------------------
(* Properties of the recognition backends *)

\* C30 as claimed: what a recogniser returns when its backend is absent
\* differs from what it returns when the backend ran and recognised nothing.
C30_UnavailableBackendIsDistinct ==
    (modality # "" /\ all_candidates = << >>) =>
        /\ best_unavailable # solve_audio_captcha(TRUE, all_candidates)
        /\ best_unavailable # solve_image_captcha(TRUE, all_candidates)
        /\ best_unavailable # best

---------------------------------------------------------------------------
(* causelist/date_utils.py: next_working_day. A date is the number that     *)
(* date.toordinal() gives it: 1 is Monday 0001-01-01.                        *)

\* the arguments are the last DateSpan days a date can hold and the days before
DateSpan == 60

\* date.max.toordinal(): 9999-12-31, a Friday
MaxOrdinal == 3652059

FromDates == (MaxOrdinal - DateSpan)..MaxOrdinal

\* date.weekday(): Monday is 0, Sunday is 6
Weekday(day) == (day + 6) % 7

\* variant: only Sunday is passed over
IsWeekendSundayOnly(day) == Weekday(day) >= 6

\* d.weekday() >= 5
IsWeekend(day) == Weekday(day) >= 5

DateInit ==
    SearchInit /\ VerifyIdle /\ SelectIdle /\ BotIdle /\ ParseIdle /\ GroupIdle /\ DateIdle /\ FormatIdle /\ SchedIdle

\* d = from_date; d += timedelta(days=1), which raises OverflowError past date.max
NwdCall(f) ==
    /\ nwd_pc \in {"idle", "returned", "raised"}
    /\ from_date' = f
    /\ increments' = 0
    /\ IF f + 1 > MaxOrdinal
       THEN nwd_pc' = "raised" /\ d' = f
       ELSE nwd_pc' = "loop" /\ d' = f + 1
    /\ UNCHANGED dateOthers

\* while d.weekday() >= 5: d += timedelta(days=1)
NwdLoop ==
    /\ nwd_pc = "loop"
    /\ IsWeekend(d)
    /\ increments' = increments + 1
    /\ IF d + 1 > MaxOrdinal
       THEN nwd_pc' = "raised" /\ d' = d
       ELSE nwd_pc' = "loop" /\ d' = d + 1
    /\ UNCHANGED from_date
    /\ UNCHANGED dateOthers

\* return d
NwdReturn ==
    /\ nwd_pc = "loop"
    /\ ~IsWeekend(d)
    /\ nwd_pc' = "returned"
    /\ UNCHANGED <<from_date, d, increments>>
    /\ UNCHANGED dateOthers

\* _get_date_options calls next_working_day with what it returned before
DateNext ==
    \/ \E f \in FromDates : NwdCall(f)
    \/ nwd_pc = "returned" /\ NwdCall(d)
    \/ NwdLoop
    \/ NwdReturn

DateSpec == DateInit /\ [][DateNext]_vars

\* the days Monday to Friday
WorkingDay(day) == Weekday(day) \in 0..4

\* the call is over
NwdOver == nwd_pc \in {"returned", "raised"}

\* C35 as claimed: for every argument the call returns the earliest date after
\* the argument that is a day from Monday to Friday, and its loop makes at most
\* 2 passes.
C35_NextWorkingDayOfEveryDate ==
    NwdOver =>
        /\ nwd_pc = "returned"
        /\ d > from_date
        /\ WorkingDay(d)
        /\ \A day \in (from_date + 1)..(d - 1) : ~WorkingDay(day)
        /\ increments <= 2

\* C35 as amended: for every argument before date.max the call returns the
\* earliest date after the argument that is a day from Monday to Friday, and
\* its loop makes at most 2 passes; for date.max the call raises.
C35_NextWorkingDayBeforeLastDate ==
    /\ increments <= 2
    /\ NwdOver =>
         IF from_date < MaxOrdinal
         THEN /\ nwd_pc = "returned"
              /\ d > from_date
              /\ WorkingDay(d)
              /\ \A day \in (from_date + 1)..(d - 1) : ~WorkingDay(day)
         ELSE nwd_pc = "raised"

\* the call for a Friday has returned the Monday after two passes of the loop
C35_Witness ==
    /\ nwd_pc = "returned"
    /\ Weekday(from_date) = 4
    /\ Weekday(d) = 0
    /\ d = from_date + 3
    /\ increments = 2

---------------------------------------------------------------------------
(* bot/formatter.py: format_causelist_message. The texts it builds are held  *)
(* as their lengths, computed from the format strings, and the cases they    *)
(* render.                                                                   *)

\* entries of one records argument
MaxCases == 3

TELEGRAM_MAX_MESSAGE_LENGTH == 4096

\* a string of n characters ch
Repeat(ch, n) == [i \in 1..n |-> ch]

\* len(html.escape(text)): & becomes &amp;, < and > become &lt; and &gt;, the
\* quotes become &quot; and &#x27;
EscLen(text) ==
    Len(text)
      + 4 * Cardinality({ i \in 1..Len(text) : text[i] = "&" })
      + 3 * Cardinality({ i \in 1..Len(text) : text[i] \in {"<", ">"} })
      + 5 * Cardinality({ i \in 1..Len(text) : text[i] \in {"\"", "'"} })

RECURSIVE SumSeq(_)
SumSeq(numbers) ==
    IF numbers = << >> THEN 0 ELSE Head(numbers) + SumSeq(Tail(numbers))

\* CAUSELIST_TYPE_NAMES.get(cl_type, cl_type)
TypeName(cl_type) ==
    CASE cl_type = "D" -> <<"D", "a", "i", "l", "y">>
      [] cl_type = "S" -> <<"S", "u", "p", "p", "l", "e", "m", "e", "n", "t", "a", "r", "y">>
      [] OTHER -> << cl_type >>

\* the target_date and lawyer_name arguments
TargetDate == <<"0", "5", "/", "1", "1", "/", "2", "0", "2", "6">>
LawyerName == <<"A", "D", "V", " ", "N", "A", "M", "E">>

\* entry.title[:300] + "..." if len(entry.title) > 300 else entry.title
TitleShown(title) ==
    IF Len(title) > 300 THEN SubSeq(title, 1, 300) \o <<".", ".", ".">> ELSE title

\* len(_format_case(entry)): "<b>{serial_no}.</b> {case_type_no}", then
\* "\n  {title}" and "\n  <i>{advocates}</i>" for those that are not empty
FormatCaseLen(entry) ==
    3 + EscLen(entry.serial_no) + 6 + EscLen(entry.case_type_no)
      + (IF entry.title # << >> THEN 1 + 2 + EscLen(TitleShown(entry.title)) ELSE 0)
      + (IF entry.advocates # << >> THEN 1 + 2 + 3 + EscLen(entry.advocates) + 4 ELSE 0)

\* a CaseEntry with a title and advocates of given texts
Case(serial, court, judge, category, title, advocates) ==
    [ serial_no    |-> serial,
      case_type_no |-> <<"C", "W", "/", "1">>,
      title        |-> title,
      advocates    |-> advocates,
      court_no     |-> court,
      judge_name   |-> judge,
      category     |-> category ]

\* entries a records argument can hold: short ones of two courts and
\* categories; one without title and advocates; a title of 400 characters that
\* are escaped; advocates of 1500, of 3979 and of 5000 characters
SampleCases ==
    LET court == <<"C", "o", "u", "r", "t", " ", "N", "o", " ", "1">>
        for_a == <<"F", "O", "R", " ", "A">>
    IN { Case(<<"1">>, court, <<"J", "1">>, for_a, <<"X">>, <<"Y">>),
         Case(<<"2">>, court, <<"J", "2">>, << >>, <<"X">>, <<"Y">>),
         Case(<<"3">>, << >>, << >>, << >>, << >>, << >>),
         Case(<<"4">>, court, <<"J", "1">>, for_a, Repeat("&", 400), <<"Y">>),
         Case(<<"5">>, court, <<"J", "1">>, for_a, <<"X">>, Repeat("A", 1500)),
         Case(<<"6">>, << >>, << >>, << >>, <<"X">>, Repeat("A", 3979)),
         Case(<<"7">>, << >>, << >>, << >>, <<"X">>, Repeat("A", 5000)) }

\* the lengths of the cases, computed once
CaseLens == [c \in SampleCases |-> FormatCaseLen(c)]

\* the lengths of the parts that _format_court_section collects for a category
CategoryPartLens(item) ==
    (IF item.key # << >> /\ item.key # General
     THEN << 1 + 3 + EscLen(item.key) + 4 >> ELSE << >>)
      \o << 0 >>
      \o Flatten([n \in 1..Len(item.cases) |-> << CaseLens[item.cases[n]], 0 >>])

\* the lengths of the parts that _format_court_section collects
SectionPartLens(section) ==
    << 1 + 30, 3 + EscLen(section.court_no) + 4 >>
      \o (IF section.judge_name # << >>
          THEN << 3 + EscLen(section.judge_name) + 4 >> ELSE << >>)
      \o << 30 >>
      \o Flatten([j \in 1..Len(section.categories) |->
                    CategoryPartLens(section.categories[j])])

\* the cases of a section, category after category
SectionCases(section) ==
    Flatten([j \in 1..Len(section.categories) |-> section.categories[j].cases])

\* _format_court_section(section): "\n".join(parts)
FormatCourtSection(section) ==
    [ len   |-> SumSeq(SectionPartLens(section)) + Len(SectionPartLens(section)) - 1,
      cases |-> SectionCases(section) ]

\* the message of a call without records
NoCasesMessage(type_name) ==
    [ len   |-> 21 + EscLen(type_name) + 23 + EscLen(TargetDate) + 19
                  + EscLen(LawyerName) + 6,
      cases |-> << >> ]

\* the number of decimal digits of a count below 100
DigitsOf(n) == IF n < 10 THEN 1 ELSE 2

\* header: "<b>Rajasthan HC - {type_name} Cause List</b>\nDate: <b>{target_date}
\* </b>\nAdvocate: <b>{lawyer_name}</b>\nCases found: <b>{len(records)}</b>"
Header(type_name, count) ==
    [ len   |-> 18 + EscLen(type_name) + 16 + 9 + EscLen(TargetDate) + 5 + 13
                  + EscLen(LawyerName) + 5 + 16 + DigitsOf(count) + 4,
      cases |-> << >> ]

\* "<b>{type_name} Cause List (contd.)</b>\n"
Continued(type_name) == [len |-> 3 + EscLen(type_name) + 25, cases |-> << >>]

\* "<b>{type_name} (contd.)</b>\n" and the section_header of _split_large_section
SplitStart(section, type_name) ==
    [ len   |-> 3 + EscLen(type_name) + 14 + 3 + EscLen(section.court_no) + 5
                  + (IF section.judge_name # << >>
                     THEN 3 + EscLen(section.judge_name) + 5 ELSE 0),
      cases |-> << >> ]

\* one text after another, with `between` characters between them
Concat(text, between, more) ==
    [len |-> text.len + between + more.len, cases |-> text.cases \o more.cases]

\* variant: a message that is not empty is not kept when a section does not fit
FlushedNever(msgs, text) == msgs

\* if current.strip(): messages.append(current)
Flushed(msgs, text) == IF text.len > 0 THEN Append(msgs, text) ELSE msgs

\* the loop of _split_large_section over the cases, and its last message
RECURSIVE SplitCases(_, _, _, _)
SplitCases(cases, msgs, text, start) ==
    IF cases = << >>
    THEN Flushed(msgs, text)
    ELSE LET case_text == [len |-> CaseLens[Head(cases)] + 2, cases |-> << Head(cases) >>]
         IN IF text.len + case_text.len > TELEGRAM_MAX_MESSAGE_LENGTH
            THEN SplitCases(Tail(cases), Append(msgs, text), Concat(start, 0, case_text), start)
            ELSE SplitCases(Tail(cases), msgs, Concat(text, 0, case_text), start)

split_large_section(section, type_name) ==
    SplitCases(SectionCases(section), << >>, SplitStart(section, type_name),
               SplitStart(section, type_name))

\* sections = group_by_court(records)
RECURSIVE GroupAll(_, _)
GroupAll(secs, recs) ==
    IF recs = << >> THEN secs ELSE GroupAll(AddEntry(secs, Head(recs)), Tail(recs))

FormatInit ==
    SearchInit /\ VerifyIdle /\ SelectIdle /\ BotIdle /\ ParseIdle /\ GroupIdle /\ DateIdle /\ FormatIdle /\ SchedIdle

\* the call, up to the loop over the sections
FormatCall(recs, cl_type) ==
    /\ fmt_pc = "idle"
    /\ fmt_records' = recs
    /\ fmt_type' = cl_type
    /\ IF recs = << >>
       THEN /\ messages' = << NoCasesMessage(TypeName(cl_type)) >>
            /\ fmt_pc' = "done"
            /\ UNCHANGED <<fmt_sections, current>>
       ELSE /\ fmt_sections' = GroupAll(<< >>, recs)
            /\ current' = Header(TypeName(cl_type), Len(recs))
            /\ messages' = << >>
            /\ fmt_pc' = "loop"
    /\ UNCHANGED formatOthers

\* one pass of the loop over the sections
FormatSection ==
    /\ fmt_pc = "loop"
    /\ fmt_sections # << >>
    /\ LET section == Head(fmt_sections)
           section_text == FormatCourtSection(section)
           type_name == TypeName(fmt_type)
       IN IF current.len + section_text.len + 2 > TELEGRAM_MAX_MESSAGE_LENGTH
          THEN IF section_text.len > TELEGRAM_MAX_MESSAGE_LENGTH
               THEN /\ messages' = Flushed(messages, current)
                                     \o split_large_section(section, type_name)
                    /\ current' = NoText
               ELSE /\ messages' = Flushed(messages, current)
                    /\ current' = Concat(Continued(type_name), 0, section_text)
          ELSE /\ current' = Concat(current, 1, section_text)
               /\ messages' = messages
    /\ fmt_sections' = Tail(fmt_sections)
    /\ UNCHANGED <<fmt_pc, fmt_records, fmt_type>>
    /\ UNCHANGED formatOthers

\* after the loop: the last message, and return messages
FormatReturn ==
    /\ fmt_pc = "loop"
    /\ fmt_sections = << >>
    /\ messages' = Flushed(messages, current)
    /\ fmt_pc' = "done"
    /\ UNCHANGED <<fmt_records, fmt_type, fmt_sections, current>>
    /\ UNCHANGED formatOthers

RECURSIVE SeqsUpTo(_, _)
SeqsUpTo(S, n) ==
    IF n = 0 THEN { << >> }
    ELSE SeqsUpTo(S, n - 1) \cup { Append(s, x) : s \in SeqsUpTo(S, n - 1), x \in S }

FormatNext ==
    \/ /\ fmt_pc = "idle"
       /\ \E recs \in SeqsUpTo(SampleCases, MaxCases), cl_type \in {"D", "S"} :
              FormatCall(recs, cl_type)
    \/ FormatSection
    \/ FormatReturn

FormatSpec == FormatInit /\ [][FormatNext]_vars

\* the cases of the returned messages, message after message
RenderedCases == Flatten([i \in DOMAIN messages |-> messages[i].cases])

\* the cases of the records in section, category and entry order
GroupedCases ==
    LET secs == GroupAll(<< >>, fmt_records)
    IN Flatten([j \in DOMAIN secs |-> SectionCases(secs[j])])

\* C33: every string that format_causelist_message returns has at most
\* TELEGRAM_MAX_MESSAGE_LENGTH (4096) characters, whatever the records are
C33_WithinTelegramLimit ==
    \A i \in DOMAIN messages : messages[i].len <= TELEGRAM_MAX_MESSAGE_LENGTH

\* C34: when format_causelist_message has returned, every input CaseEntry is
\* rendered whole in exactly one message, and the cases follow one another in
\* section, category and entry order across the list of messages
C34_EveryCaseOnceInOrder ==
    fmt_pc = "done" =>
        /\ RenderedCases = GroupedCases
        /\ Len(RenderedCases) = Len(fmt_records)
        /\ \A n \in DOMAIN fmt_records :
              Cardinality({k \in DOMAIN RenderedCases : RenderedCases[k] = fmt_records[n]})
                = Cardinality({k \in DOMAIN fmt_records : fmt_records[k] = fmt_records[n]})

\* a call has returned several messages for records that the grouping reordered
C34_Witness ==
    /\ fmt_pc = "done"
    /\ Len(fmt_records) = MaxCases
    /\ Len(messages) >= 2
    /\ \E i \in DOMAIN messages : Len(messages[i].cases) >= 2
    /\ RenderedCases # fmt_records

----------------------------------------------------------------------------
(* The scheduled job, bot/scheduler.py, with the tables of bot/database.py
   and the handlers that write the users table. Both jobs of bot_main run
   scheduled_fetch_and_notify on one event loop, so a run gives way at each
   await. The runs are those of one target date: from Friday evening to
   Sunday evening every run is for the Monday. The database answers every
   call. *)

MaxMessages == 2

SCHEDULED_CL_TYPES == <<"D", "S">>

\* the names users register with
LawyerNames == {"ADV A", "ADV B"}

\* get_active_users: SELECT ... WHERE is_active = TRUE ORDER BY id
RECURSIVE ActiveFrom(_)
ActiveFrom(id) ==
    IF id \notin UserIds THEN << >>
    ELSE (IF users[id].is_active
          THEN << [id |-> id, lawyer_name |-> users[id].lawyer_name] >>
          ELSE << >>) \o ActiveFrom(id + 1)

get_active_users == ActiveFrom(1)

\* users_by_name.setdefault(user["lawyer_name"], []).append(user), user by user
RECURSIVE GroupUsers(_, _)
GroupUsers(by_name, rows) ==
    IF rows = << >> THEN by_name
    ELSE LET user == Head(rows)
             at == {g \in DOMAIN by_name : by_name[g].lawyer_name = user.lawyer_name}
         IN IF at = {}
            THEN GroupUsers(Append(by_name, [lawyer_name |-> user.lawyer_name,
                                             user_group |-> << user.id >>]),
                            Tail(rows))
            ELSE GroupUsers([by_name EXCEPT ![CHOOSE g \in at : TRUE].user_group =
                                                Append(@, user.id)],
                            Tail(rows))

\* where a run is: its cause list type, its group and its user
ClType(j) == SCHEDULED_CL_TYPES[run[j].cl_type]
Group(j) == run[j].users_by_name[run[j].group]
User(j) == Group(j).user_group[run[j].user]

\* the next pass of the loops over the types and the groups, or the end
NextPair(r) ==
    IF r.group < Len(r.users_by_name)
    THEN [r EXCEPT !.pc = "fetch", !.group = @ + 1, !.user = 1, !.msg = 1, !.messages = 0]
    ELSE IF r.cl_type < Len(SCHEDULED_CL_TYPES)
         THEN [r EXCEPT !.pc = "fetch", !.cl_type = @ + 1, !.group = 1, !.user = 1,
                        !.msg = 1, !.messages = 0]
         ELSE [r EXCEPT !.pc = "returned", !.user = 1, !.msg = 1, !.messages = 0]

\* variant: a fetch that raises ends the run
EndOfRun(r) == [r EXCEPT !.pc = "returned", !.user = 1, !.msg = 1, !.messages = 0]

\* where the run goes on when a fetch has raised and the error is logged
AfterFetchError(r) == NextPair(r)

SchedInit ==
    SearchInit /\ VerifyIdle /\ SelectIdle /\ BotIdle /\ ParseIdle /\ GroupIdle /\ DateIdle /\ FormatIdle /\ SchedIdle

\* register_name: upsert_user, which also reactivates the user
Register(u, name) ==
    /\ users' = [users EXCEPT ![u] = [is_active |-> TRUE, lawyer_name |-> name]]
    /\ UNCHANGED <<notification_log, run, fetch_log, send_failed, received>>
    /\ UNCHANGED schedOthers

\* stop_command: deactivate_user
Stop(u) ==
    /\ users' = [users EXCEPT ![u].is_active = FALSE]
    /\ UNCHANGED <<notification_log, run, fetch_log, send_failed, received>>
    /\ UNCHANGED schedOthers

\* the job starts: target_date, get_active_users, users_by_name. The jobs are
\* fifteen hours apart: a run has returned when the next one starts
StartRun(j) ==
    /\ \A k \in Jobs : run[k].pc = "idle"
    /\ LET rows == get_active_users
       IN run' = [run EXCEPT ![j] =
                    IF rows = << >>
                    THEN [NoRun EXCEPT !.pc = "returned", !.target_date = TargetDate]
                    ELSE [NoRun EXCEPT !.pc = "fetch", !.target_date = TargetDate,
                                       !.users = rows,
                                       !.users_by_name = GroupUsers(<< >>, rows)]]
    /\ UNCHANGED <<users, notification_log, fetch_log, send_failed, received>>
    /\ UNCHANGED schedOthers

\* search_causelist returns, and the messages are built
FetchReturns(j, n) ==
    /\ run[j].pc = "fetch"
    /\ run' = [run EXCEPT ![j].pc = "check", ![j].messages = n, ![j].user = 1]
    /\ UNCHANGED <<users, notification_log, fetch_log, send_failed, received>>
    /\ UNCHANGED schedOthers

\* search_causelist raises: except Exception as fetch_err, log_fetch "error"
FetchRaises(j) ==
    /\ run[j].pc = "fetch"
    /\ fetch_log' = [fetch_log EXCEPT ![j] =
                       @ \cup {<<Group(j).lawyer_name, ClType(j), "error">>}]
    /\ run' = [run EXCEPT ![j] = AfterFetchError(run[j])]
    /\ UNCHANGED <<users, notification_log, send_failed, received>>
    /\ UNCHANGED schedOthers

\* was_notified for the next user of the group
WasNotified(j) ==
    /\ run[j].pc = "check"
    /\ run[j].user <= Len(Group(j).user_group)
    /\ run' = [run EXCEPT ![j] =
                 IF <<User(j), ClType(j), run[j].target_date>> \in notification_log
                 THEN [@ EXCEPT !.user = @ + 1]
                 ELSE [@ EXCEPT !.pc = "send", !.msg = 1]]
    /\ UNCHANGED <<users, notification_log, fetch_log, send_failed, received>>
    /\ UNCHANGED schedOthers

\* send_message delivers the next message to the user
SendMessage(j) ==
    /\ run[j].pc = "send"
    /\ received' = received \cup {<<User(j), ClType(j), run[j].target_date>>}
    /\ run' = [run EXCEPT ![j] =
                 IF run[j].msg < run[j].messages
                 THEN [@ EXCEPT !.msg = @ + 1]
                 ELSE [@ EXCEPT !.pc = "log"]]
    /\ UNCHANGED <<users, notification_log, fetch_log, send_failed>>
    /\ UNCHANGED schedOthers

\* send_message raises: except Exception as send_err, and the next user
SendRaises(j) ==
    /\ run[j].pc = "send"
    /\ send_failed' = [send_failed EXCEPT ![j] = @ \cup {<<User(j), ClType(j)>>}]
    /\ run' = [run EXCEPT ![j].pc = "check", ![j].user = @ + 1, ![j].msg = 1]
    /\ UNCHANGED <<users, notification_log, fetch_log, received>>
    /\ UNCHANGED schedOthers

\* log_notification after the last message: INSERT ... ON CONFLICT DO NOTHING
LogNotification(j) ==
    /\ run[j].pc = "log"
    /\ notification_log' = notification_log \cup
                             {<<User(j), ClType(j), run[j].target_date>>}
    /\ run' = [run EXCEPT ![j].pc = "check", ![j].user = @ + 1, ![j].msg = 1]
    /\ UNCHANGED <<users, fetch_log, send_failed, received>>
    /\ UNCHANGED schedOthers

\* after the last user of the group: log_fetch "success", and the next pair
LogFetch(j) ==
    /\ run[j].pc = "check"
    /\ run[j].user > Len(Group(j).user_group)
    /\ fetch_log' = [fetch_log EXCEPT ![j] =
                       @ \cup {<<Group(j).lawyer_name, ClType(j), "success">>}]
    /\ run' = [run EXCEPT ![j] = NextPair(run[j])]
    /\ UNCHANGED <<users, notification_log, send_failed, received>>
    /\ UNCHANGED schedOthers

\* the job function returns
RunReturns(j) ==
    /\ run[j].pc = "returned"
    /\ run' = [run EXCEPT ![j] = NoRun]
    /\ fetch_log' = [fetch_log EXCEPT ![j] = {}]
    /\ send_failed' = [send_failed EXCEPT ![j] = {}]
    /\ UNCHANGED <<users, notification_log, received>>
    /\ UNCHANGED schedOthers

SchedNext ==
    \/ \E u \in UserIds, name \in LawyerNames : Register(u, name)
    \/ \E u \in UserIds : Stop(u)
    \/ \E j \in Jobs : StartRun(j)
    \/ \E j \in Jobs, n \in 1..MaxMessages : FetchReturns(j, n)
    \/ \E j \in Jobs : FetchRaises(j)
    \/ \E j \in Jobs : WasNotified(j)
    \/ \E j \in Jobs : SendMessage(j)
    \/ \E j \in Jobs : SendRaises(j)
    \/ \E j \in Jobs : LogNotification(j)
    \/ \E j \in Jobs : LogFetch(j)
    \/ \E j \in Jobs : RunReturns(j)

SchedSpec == SchedInit /\ [][SchedNext]_vars

\* the key of notification_log for the user a run is at
Key(j) == <<User(j), ClType(j), run[j].target_date>>

\* the groups of a run and the cause list types
Pairs(j) == {<<g, t>> : g \in DOMAIN run[j].users_by_name, t \in DOMAIN SCHEDULED_CL_TYPES}

\* the fetch_log row of a pair of the run, with a status
Row(j, pair, status) ==
    <<run[j].users_by_name[pair[1]].lawyer_name, SCHEDULED_CL_TYPES[pair[2]], status>>

\* C31: over any sequence of scheduled runs, runs in which a send fails
\* partway through the messages included, the messages of a cl_type and
\* target_date go to a user at most once: a run never starts sending them to a
\* user they have reached before
C31_MessagesAtMostOnce ==
    [][ \A j \in Jobs :
          (SendMessage(j) /\ run[j].msg = 1) => Key(j) \notin received ]_vars

\* C32: once stop_command has deactivated a user, no scheduled notification
\* is sent to that user until they register again: a message is only sent to
\* a user who is active when it is sent
C32_NoSendAfterStop ==
    [][ \A j \in Jobs : SendMessage(j) => users[User(j)].is_active ]_vars

\* C40: when a run returns, every pair of a lawyer_name and a cl_type of the run
\* has been fetched, whatever fetches raised, and every user of a pair whose
\* fetch returned is notified, unless the send to that very user raised
C40_FailuresDoNotEndTheRun ==
    \A j \in Jobs :
        run[j].pc = "returned" =>
            \A pair \in Pairs(j) :
                /\ \E status \in {"success", "error"} : Row(j, pair, status) \in fetch_log[j]
                /\ Row(j, pair, "error") \notin fetch_log[j] =>
                     \A n \in DOMAIN run[j].users_by_name[pair[1]].user_group :
                        LET user == run[j].users_by_name[pair[1]].user_group[n]
                            cl_type == SCHEDULED_CL_TYPES[pair[2]]
                        IN \/ <<user, cl_type, run[j].target_date>> \in notification_log
                           \/ <<user, cl_type>> \in send_failed[j]

\* a run whose first fetch raised, and in which the send to the first user of
\* a group raised, has sent every message to the second user of the group
C40_Witness ==
    \E j \in Jobs :
        /\ run[j].pc = "log"
        /\ run[j].user = 2
        /\ <<Group(j).user_group[1], ClType(j)>> \in send_failed[j]
        /\ \E pair \in Pairs(j) : Row(j, pair, "error") \in fetch_log[j]

====
